---- MODULE Spec2Model ----
(***************************************************************************)
(* Model of the LangChain-tool -> MCP-tool bridge of langgraph-mcp-core    *)
(* (src/mcp_bridge.py, src/transform/lang_mcp_transform.py) and of the     *)
(* way its entry points, and the agent-as-tool entry points, run on the    *)
(* server's single cooperative scheduler and its worker pool.              *)
(*                                                                         *)
(* Spec      registration of a batch of tools, then bridged calls.         *)
(* SpecConc  concurrent tool invocations on the scheduler / worker pool.   *)
(* SpecAgent execute_query calls of threads on one AgentOrchestrationUseCase *)
(*           (src/core/use_cases/agent_orchestration.py) and its tool      *)
(*           repository (src/adapters/tools/langchain_tool_repository.py). *)
(* SpecStart start-up: settings, provider factory, orchestrator creation    *)
(*           (src/infrastructure/config/settings.py, src/adapters/llm/,    *)
(*           src/agent.py).                                                *)
(* SpecGraph one run of the two-node agent graph (src/graphs/graph.py,      *)
(*           src/main.py).                                                 *)
(* SpecAdapter registrations on one MCPServerAdapter                        *)
(*           (src/adapters/mcp/mcp_server_adapter.py).                     *)
(* SpecRepo  construction of one LangChainToolRepository                    *)
(*           (src/adapters/tools/langchain_tool_repository.py).            *)
(* SpecAutoTools  update_main_tools_file on one tools/tools.py               *)
(*           (src/auto_tools.py).                                          *)
(* SpecCalc  one call of a calculator tool (CalculatorTool._run of          *)
(*           langchain_tool_repository.py, simple_calculator of tools.py). *)
(***************************************************************************)
EXTENDS Naturals, Sequences, FiniteSets, TLC

VARIABLES
    tools,        \* the batch handed to register_langchain_tools_as_mcp
    idx,          \* position of the `for lc_tool in tools` loop (next item)
    lc_tool,      \* the local variable lc_tool of the function (the one cell
                  \* every wrapper / simple_wrapper closure refers to); 0 = unbound
    registry,     \* the mcp server's tools: name -> registered entry point
    regStatus,    \* "running" | "returned" | "raised" : the registration call
    lastCall,     \* the last tools/call handled: request, invokes made, outcome
    calls,        \* SpecConc: per invocation, its kind and position
    sched,        \* SpecConc: the invocation the scheduler thread is executing
                  \* blocking work for (0 = the scheduler is free)
    queue,        \* SpecConc: work submitted to the pool, not yet on a worker
    capacity,     \* SpecConc: worker threads of the pool
    agent_cache,  \* SpecConc: _agent_cache of register_langgraph_agent_as_mcp:
                  \* None, or the compiled agent (each agent_function() call
                  \* that returns, returns a new one: the n-th call's is n)
    compilations, \* SpecConc: the outcome of every agent_function() call made,
                  \* in order, and the invocation that made it
    invoked_agent,\* SpecConc: per invocation, the compiled agent whose invoke
                  \* it called (0 = none)
    work,         \* SpecConc: per invocation, how its blocking work ended
    reply,        \* SpecConc: per invocation, what its entry point gave the
                  \* protocol layer: an exception, or the text it returned
    state,        \* SpecAgent: self.state of the AgentOrchestrationUseCase
    exec,         \* SpecAgent: per thread, its execute_query call (position,
                  \* locals, the AgentExecution it returned)
    started,      \* SpecAgent: execute_query calls begun so far
    repo_tools,   \* SpecAgent: the keys of LangChainToolRepository._tools
    lastTool,     \* SpecAgent: the last execute_tool made by a caller other
                  \* than the orchestrator, and what it produced
    env,          \* SpecStart: the environment variables read at start-up
    boot,         \* SpecStart: the start-up of src/agent.py (position, settings,
                  \* provider instance, orchestrator, LLM calls made)
    made,         \* SpecStart: the last LLMProviderFactory.create_provider call
                  \* made on its own, and what it produced
    messages,     \* SpecGraph: state["messages"] of the running agent graph
    initial,      \* SpecGraph: the messages the graph was invoked with
    graph,        \* SpecGraph: the run (the node to execute next, which of the
                  \* two graphs it is, how often each node has run)
    registered_agents,\* SpecAdapter: the keys of MCPServerAdapter.registered_agents,
                  \* in insertion order
    registered,   \* SpecAdapter: the tool names whose registration call returned
    reg_failed,   \* SpecAdapter: a registration call has raised
    listing,      \* SpecAdapter: what the last get_registered_tools returned
    repo,         \* SpecRepo: the construction of a LangChainToolRepository (the
                  \* statement of _initialize_tools to run next, the keys of
                  \* _tools in insertion order, how each tool constructor ended)
    available,    \* SpecRepo: the names the last get_available_tools returned
    tools_py,     \* SpecAutoTools: the lines of tools/tools.py, each the sequence of
                  \* its tokens
    layout,       \* SpecAutoTools: the lines tools/tools.py had before, the list's position
                  \* and last line, and the arguments of update_main_tools_file
    rewritten,    \* SpecAutoTools: update_main_tools_file has run
    calc_call,    \* SpecCalc: the calculator tool called and its expression
    calc_result   \* SpecCalc: what the call did: whether eval was reached, whether
                  \* the tool raised, the text it returned

bridgeVars == <<tools, idx, lc_tool, registry, regStatus, lastCall>>
concVars == <<calls, sched, queue, capacity, agent_cache, compilations,
              invoked_agent, work, reply>>
agentVars == <<state, exec, started, repo_tools, lastTool>>
startVars == <<env, boot, made>>
graphVars == <<messages, initial, graph>>
adapterVars == <<registered_agents, registered, reg_failed, listing>>
repoVars == <<repo, available>>
autoVars == <<tools_py, layout, rewritten>>
calcVars == <<calc_call, calc_result>>
vars == <<tools, idx, lc_tool, registry, regStatus, lastCall,
          calls, sched, queue, capacity, agent_cache, compilations,
          invoked_agent, work, reply,
          state, exec, started, repo_tools, lastTool,
          env, boot, made,
          messages, initial, graph,
          registered_agents, registered, reg_failed, listing,
          repo, available,
          tools_py, layout, rewritten,
          calc_call, calc_result>>

\* what each subsystem leaves alone
offBridge == <<concVars, agentVars, startVars, graphVars, adapterVars, repoVars, autoVars, calcVars>>
offConc == <<bridgeVars, agentVars, startVars, graphVars, adapterVars, repoVars, autoVars, calcVars>>
offAgent == <<bridgeVars, concVars, startVars, graphVars, adapterVars, repoVars, autoVars, calcVars>>
offStart == <<bridgeVars, concVars, agentVars, graphVars, adapterVars, repoVars, autoVars, calcVars>>
offGraph == <<bridgeVars, concVars, agentVars, startVars, adapterVars, repoVars, autoVars, calcVars>>
offAdapter == <<bridgeVars, concVars, agentVars, startVars, graphVars, repoVars, autoVars, calcVars>>
offRepo == <<bridgeVars, concVars, agentVars, startVars, graphVars, adapterVars, autoVars, calcVars>>
offCalc == <<bridgeVars, concVars, agentVars, startVars, graphVars, adapterVars,
            repoVars, autoVars>>
offAuto == <<bridgeVars, concVars, agentVars, startVars, graphVars, adapterVars,
            repoVars, calcVars>>

(***************************************************************************)
(* Bounds                                                                  *)
(***************************************************************************)
MaxBatch == 3      \* longest batch of tools registered
NCalls == 2        \* concurrent invocations in SpecConc
MaxPool == 2       \* largest worker pool in SpecConc
MaxLLMCalls == 2   \* LLM calls made after start-up in SpecStart
MaxQueryLen == 3   \* longest user query (characters) in SpecGraph
MaxNodeRuns == 3   \* executions of one node the model follows in a run of SpecGraph
MaxQueries == 2

\* characters of the expression handed to a calculator tool at most
MaxExprLen == 3

\* lines the `tools = [...]` list of tools/tools.py spans at most
MaxListLines == 3    \* execute_query calls begun in one behaviour of SpecAgent

(***************************************************************************)
(* Tools.  A LangChain tool is opaque to the bridge: a name, a             *)
(* description, optionally an args_schema, and invoke().  A descriptor     *)
(* records what the bridge can observe of it:                              *)
(*   metaOk     _tool_metadata(lc_tool) returns (FALSE: it raises, e.g. a  *)
(*              description of None has no .strip())                       *)
(*   schemaKind "none"   args_schema is None                               *)
(*              "model"  a pydantic model with model_fields                *)
(*              "broken" an args_schema whose introspection raises (no     *)
(*                       model_fields)                                     *)
(*   fields     field name -> its default in the schema: "absent" (no such *)
(*              field), "Undefined" (no default), "None", "val"            *)
(*   strIn      what invoke(<str>) does; dictIn what invoke(<dict>) does,  *)
(*              once the tool's own schema accepted the dict:              *)
(*              "accept" | "TypeError" | "ValueError", raised before the   *)
(*              tool's work (a rejected input) resp. by it; and            *)
(*              "TypeError in work": the input is accepted and the tool's  *)
(*              work raises a TypeError of its own                         *)
(*   retStr     the tool returns a str (FALSE: some other object)          *)
(*   mcpOk      mcp.tool() accepts the entry point (FALSE: it raises)      *)
(***************************************************************************)
FieldNames == {"query", "expression", "limit", "input"}

NoFields == [f \in FieldNames |-> "absent"]

Fields(defaults) ==
    [f \in FieldNames |-> IF f \in DOMAIN defaults THEN defaults[f] ELSE "absent"]

Tool(name, metaOk, schemaKind, fields, strIn, dictIn, retStr, mcpOk) ==
    [name |-> name, metaOk |-> metaOk, schemaKind |-> schemaKind,
     fields |-> fields, strIn |-> strIn, dictIn |-> dictIn,
     retStr |-> retStr, mcpOk |-> mcpOk]

\* @tool def search_knowledge_base(query: str) -> str
search_knowledge_base ==
    Tool("search_knowledge_base", TRUE, "model", Fields([query |-> "Undefined"]),
         "accept", "accept", TRUE, TRUE)

\* @tool def simple_calculator(expression: str) -> str
simple_calculator ==
    Tool("simple_calculator", TRUE, "model", Fields([expression |-> "Undefined"]),
         "accept", "accept", TRUE, TRUE)

\* The other shapes of tool the bridge is written for.
Catalogue ==
    { search_knowledge_base,
      simple_calculator,
      \* a schema with a required field, a default of None and a real default;
      \* the tool returns an object, not a str
      Tool("lookup", TRUE, "model",
           Fields([query |-> "Undefined", limit |-> "None", expression |-> "val"]),
           "accept", "accept", FALSE, TRUE),
      \* schema present, the tool's work raises
      Tool("failing_structured", TRUE, "model", Fields([query |-> "Undefined"]),
           "ValueError", "ValueError", TRUE, TRUE),
      \* no schema, takes the raw string
      Tool("raw_echo", TRUE, "none", NoFields, "accept", "accept", TRUE, TRUE),
      \* no schema, rejects a raw string, takes {"input": value}
      Tool("dict_only", TRUE, "none", NoFields, "TypeError", "accept", FALSE, TRUE),
      \* no schema, the tool's work raises
      Tool("failing", TRUE, "none", NoFields, "ValueError", "ValueError", TRUE, TRUE),
      \* no schema, takes the raw string, and its work raises a TypeError
      Tool("buggy", TRUE, "none", NoFields, "TypeError in work", "accept", TRUE, TRUE),
      \* no schema, rejects the raw string and fails on the dict
      Tool("strict", TRUE, "none", NoFields, "TypeError", "ValueError", TRUE, TRUE),
      \* metadata extraction raises
      Tool("bad_meta", FALSE, "none", NoFields, "accept", "accept", TRUE, TRUE),
      \* schema introspection raises
      Tool("legacy", TRUE, "broken", NoFields, "accept", "accept", TRUE, TRUE),
      \* the server refuses the entry point
      Tool("refused", TRUE, "none", NoFields, "accept", "accept", TRUE, FALSE) }

Names == {t.name : t \in Catalogue}

(***************************************************************************)
(* Values.  An input is the raw string or a dict with a set of keys; a     *)
(* result remembers which tool produced it and from which input, whether   *)
(* it is a str, and whether it went through str().                         *)
(***************************************************************************)
StrInput == [kind |-> "str", keys |-> {}]

DictInput(keys) == [kind |-> "dict", keys |-> keys]

NoInput == [kind |-> "none", keys |-> {}]

NoValue == [by |-> "", arg |-> NoInput, isStr |-> FALSE, viaStr |-> FALSE]

\* str(result)
str(v) == [v EXCEPT !.isStr = TRUE, !.viaStr = TRUE]

\* (mutant) the result is returned as it is
ToStr_Unconverted(v) == v

\* result if isinstance(result, str) else str(result)
ToStr(v) == IF v.isStr THEN v ELSE str(v)

\* The fields the tool's own schema requires (no default in the schema).
SchemaRequired(t) == {f \in FieldNames : t.fields[f] = "Undefined"}

\* lc_tool.invoke(input): [exc, worked, val], worked telling whether the
\* tool's own work was begun
invoke(t, input) ==
    LET how == IF input.kind = "str" THEN t.strIn
               ELSE IF t.schemaKind = "model" /\ ~(SchemaRequired(t) \subseteq input.keys)
                    THEN "ValidationError"
                    ELSE t.dictIn
    IN  IF how = "accept"
        THEN [exc |-> "none", worked |-> TRUE,
              val |-> [by |-> t.name, arg |-> input, isStr |-> t.retStr, viaStr |-> FALSE]]
        ELSE IF how = "TypeError in work"
        THEN [exc |-> "TypeError", worked |-> TRUE, val |-> NoValue]
        ELSE [exc |-> how, worked |-> (how = "ValueError"), val |-> NoValue]

(***************************************************************************)
(* Registration                                                            *)
(***************************************************************************)
\* _tool_metadata: raises iff the tool's metadata cannot be read
tool_metadata_raises(t) == ~t.metaOk

\* default = field.default if field.default is not None else ...
HintDefault(d) == IF d = "None" THEN "Ellipsis" ELSE d

\* _kwargs_from_args_schema: field -> default of the hint ("absent": no field)
kwargs_from_args_schema(t) ==
    [f \in FieldNames |-> IF t.fields[f] = "absent" THEN "absent"
                          ELSE HintDefault(t.fields[f])]

\* args_schema.model_fields raises
introspection_raises(t) == t.schemaKind = "broken"

NotRegistered == [kind |-> "absent", sig |-> NoFields]

\* wrapper with __signature__ = Signature(params): one keyword-only parameter
\* per hint, with the hint's default
WrapperEntry(t) == [kind |-> "wrapper", sig |-> kwargs_from_args_schema(t)]

\* simple_wrapper(input: str) -> str
SimpleEntry == [kind |-> "simple_wrapper",
                sig |-> [f \in FieldNames |-> IF f = "input" THEN "empty" ELSE "absent"]]

\* mcp.tool()(fn) inside try/except: registered under fn.__name__ unless it raises
mcp_tool(reg, t, entry) == IF t.mcpOk THEN [reg EXCEPT ![t.name] = entry] ELSE reg

\* One iteration of `for lc_tool in tools` (the loop variable is rebound first).
RegisterStep ==
    /\ regStatus = "running"
    /\ idx <= Len(tools)
    /\ LET t == tools[idx] IN
        /\ lc_tool' = idx
        /\ IF tool_metadata_raises(t)
           THEN \* except Exception: continue
                /\ registry' = registry
                /\ regStatus' = "running"
                /\ idx' = idx + 1
           ELSE IF t.schemaKind # "none"
           THEN IF introspection_raises(t)
                THEN \* _kwargs_from_args_schema is outside every try
                     /\ registry' = registry
                     /\ regStatus' = "raised"
                     /\ idx' = idx
                ELSE /\ registry' = mcp_tool(registry, t, WrapperEntry(t))
                     /\ regStatus' = "running"
                     /\ idx' = idx + 1
           ELSE /\ registry' = mcp_tool(registry, t, SimpleEntry)
                /\ regStatus' = "running"
                /\ idx' = idx + 1
    /\ UNCHANGED <<tools, lastCall>>
    /\ UNCHANGED offBridge

\* The loop is exhausted: register_langchain_tools_as_mcp returns.
RegisterReturn ==
    /\ regStatus = "running"
    /\ idx > Len(tools)
    /\ regStatus' = "returned"
    /\ UNCHANGED <<tools, idx, lc_tool, registry, lastCall>>
    /\ UNCHANGED offBridge

(***************************************************************************)
(* Bridged calls.  The protocol server validates the arguments of a        *)
(* tools/call against the signature the entry point was registered with;   *)
(* a parameter is required when its default is inspect.Parameter.empty     *)
(* ("empty"), pydantic's Undefined or Ellipsis (the server builds a        *)
(* pydantic model from the signature, and both mean "required" there).     *)
(***************************************************************************)
BridgeRequired(entry) ==
    {f \in FieldNames : entry.sig[f] \in {"empty", "Undefined", "Ellipsis"}}

BridgeParams(entry) == {f \in FieldNames : entry.sig[f] # "absent"}

Invoked(t, input, r) ==
    [tool |-> t.name, input |-> input, exc |-> r.exc, worked |-> r.worked]

NoCall ==
    [name |-> "", args |-> {}, status |-> "none", exc |-> "none",
     ret |-> NoValue, invoked |-> <<>>]

\* (mutant) an exception of _run is swallowed and an empty string returned
Finish_Swallowed(name, args, r, invoked) ==
    [name |-> name, args |-> args, status |-> "ok", exc |-> "none",
     ret |-> IF r.exc # "none" THEN [NoValue EXCEPT !.isStr = TRUE] ELSE ToStr(r.val),
     invoked |-> invoked]

\* What the awaited _run produced: the call fails with the exception, or
\* returns `result if isinstance(result, str) else str(result)`.
Finish(name, args, r, invoked) ==
    IF r.exc # "none"
    THEN [name |-> name, args |-> args, status |-> "failed", exc |-> r.exc,
          ret |-> NoValue, invoked |-> invoked]
    ELSE [name |-> name, args |-> args, status |-> "ok", exc |-> "none",
          ret |-> ToStr(r.val), invoked |-> invoked]

\* async def wrapper(**kwargs): _run is `return lc_tool.invoke(kwargs)`, and
\* lc_tool is read when _run executes.
wrapper(name, args, kwargs) ==
    LET t == tools[lc_tool]
        r == invoke(t, DictInput(kwargs))
    IN  Finish(name, args, r, <<Invoked(t, DictInput(kwargs), r)>>)

\* async def simple_wrapper(input): _run tries lc_tool.invoke(input) and, on
\* TypeError, lc_tool.invoke({"input": input}).
simple_wrapper(name, args) ==
    LET t == tools[lc_tool]
        r1 == invoke(t, StrInput)
        r2 == invoke(t, DictInput({"input"}))
    IN  IF r1.exc = "TypeError"
        THEN Finish(name, args, r2,
                    <<Invoked(t, StrInput, r1), Invoked(t, DictInput({"input"}), r2)>>)
        ELSE Finish(name, args, r1, <<Invoked(t, StrInput, r1)>>)

\* A tools/call request for `name` with the argument keys `args`.
CallTool(name, args) ==
    LET entry == registry[name] IN
    IF entry.kind = "absent"
    THEN [NoCall EXCEPT !.name = name, !.args = args, !.status = "unknown"]
    ELSE IF ~(BridgeRequired(entry) \subseteq args)
    THEN [NoCall EXCEPT !.name = name, !.args = args, !.status = "rejected"]
    ELSE IF entry.kind = "wrapper"
    THEN wrapper(name, args, args \cap BridgeParams(entry))
    ELSE simple_wrapper(name, args)

\* The server handles one request of the client: the registration has ended
\* (mcp_server.py logs an exception of the transform and serves what was
\* registered), and the previous response has been sent.
BridgedCall ==
    /\ regStatus \in {"returned", "raised"}
    /\ lastCall.status = "none"
    /\ \E i \in 1..Len(tools), args \in SUBSET FieldNames :
          lastCall' = CallTool(tools[i].name, args)
    /\ UNCHANGED <<tools, idx, lc_tool, registry, regStatus>>
    /\ UNCHANGED offBridge

\* The response is sent; nothing of the call is kept (the bridge is stateless).
Respond ==
    /\ lastCall.status # "none"
    /\ lastCall' = NoCall
    /\ UNCHANGED <<tools, idx, lc_tool, registry, regStatus>>
    /\ UNCHANGED offBridge

(***************************************************************************)
(* Values shared by the specifications.  An Optional[...] is a sequence of *)
(* at most one element: None is the empty sequence.                        *)
(***************************************************************************)
None == <<>>

Some(v) == <<v>>

\* the two threads that call execute_query in SpecAgent
Threads == {1, 2}

\* AgentState(status=IDLE, current_task=None, tools_used=[],
\* last_response=None), error_message defaulting to None
FreshState ==
    [status |-> "IDLE", current_task |-> None, tools_used |-> <<>>,
     last_response |-> None, error_message |-> None]

\* a thread that is not inside execute_query
IdleExec ==
    [pc |-> "idle", query |-> <<>>, path |-> "none", hit |-> FALSE,
     tool_result |-> None, response |-> None, exc |-> "none",
     llm_calls |-> 0, base |-> <<>>, alone |-> TRUE, result |-> None]

NoToolCall == [name |-> "", run |-> "", raised |-> FALSE, ret |-> None]

AgentIdle ==
    /\ state = FreshState
    /\ exec = [e \in Threads |-> IdleExec]
    /\ started = 0
    /\ repo_tools = {}
    /\ lastTool = NoToolCall

\* os.environ, as far as start-up reads it
NoEnv == [MAIN_PROVIDER |-> None, OPENAI_API_KEY |-> None, GEMINI_API_KEY |-> None]

\* a process that has not been started
NotBooted ==
    [pc |-> "off", main_provider |-> <<>>, provider |-> None, error |-> "none",
     orchestrator |-> FALSE, llm_calls |-> 0]

\* no call of LLMProviderFactory.create_provider has been made
NotMade ==
    [called |-> FALSE, arg |-> None, ctor |-> "", outcome |-> "none", type |-> None]

StartIdle ==
    /\ env = NoEnv
    /\ boot = NotBooted
    /\ made = NotMade

\* no run of the agent graph
NoRun ==
    [pc |-> "none", variant |-> "", agent_runs |-> 0, action_runs |-> 0,
     question |-> None]

GraphIdle ==
    /\ messages = <<>>
    /\ initial = <<>>
    /\ graph = NoRun

AdapterIdle ==
    /\ registered_agents = <<>>
    /\ registered = {}
    /\ reg_failed = FALSE
    /\ listing = None

\* no LangChainToolRepository is being constructed
NotConstructing ==
    [pc |-> "off", vector_store |-> FALSE, keys |-> <<>>,
     ended |-> [n \in {} |-> "none"]]

RepoIdle ==
    /\ repo = NotConstructing
    /\ available = None

\* no tools/tools.py to update
NoLayout ==
    [head |-> <<>>, list |-> <<>>, tail |-> <<>>, new_tool_names |-> <<>>]

AutoIdle ==
    /\ tools_py = <<>>
    /\ layout = NoLayout
    /\ rewritten = FALSE

\* no calculator call
NoCalcCall == [tool |-> "none", expression |-> <<>>]

NoCalcResult == [ran |-> FALSE, eval_reached |-> FALSE, raised |-> FALSE, text |-> <<>>]

CalcIdle ==
    /\ calc_call = NoCalcCall
    /\ calc_result = NoCalcResult

(***************************************************************************)
(* Specification of the bridge                                             *)
(***************************************************************************)
RECURSIVE Batches(_)
\* the batches of n distinct tools of the catalogue
Batches(n) ==
    IF n = 0 THEN {<<>>}
    ELSE {Append(b, t) : b \in Batches(n - 1), t \in Catalogue}

Distinct(b) == \A i, j \in 1..Len(b) : i # j => b[i].name # b[j].name

\* What an entry point gives the protocol layer: it raises, or returns a
\* text (the sequence of the pieces the text is formatted from).
Reply(raised, text) == [raised |-> raised, text |-> text]

NoReply == Reply(FALSE, <<>>)

\* str(e) of the exception caught
str_e == "boom"

\* error_message of the AgentExecution execute_query returns on a failure:
\* error_msg = f"Agent execution failed: {str(e)}"
error_message_of_failure == <<"Agent execution failed: ", str_e>>

ConcIdle ==
    /\ calls = <<>>
    /\ sched = 0
    /\ queue = <<>>
    /\ capacity = 0
    /\ agent_cache = None
    /\ compilations = <<>>
    /\ invoked_agent = [c \in 1..NCalls |-> 0]
    /\ work = [c \in 1..NCalls |-> "none"]
    /\ reply = [c \in 1..NCalls |-> NoReply]

Init ==
    /\ tools \in {b \in UNION {Batches(n) : n \in 1..MaxBatch} : Distinct(b)}
    /\ idx = 1
    /\ lc_tool = 0
    /\ registry = [n \in Names |-> NotRegistered]
    /\ regStatus = "running"
    /\ lastCall = NoCall
    /\ ConcIdle
    /\ AgentIdle
    /\ CalcIdle
    /\ AutoIdle
    /\ RepoIdle
    /\ AdapterIdle
    /\ GraphIdle
    /\ StartIdle

Next == RegisterStep \/ RegisterReturn \/ BridgedCall \/ Respond

Spec == Init /\ [][Next]_vars

(***************************************************************************)
(* Claims about the bridge (checked under Spec)                            *)
(***************************************************************************)
ToolNamed(n) == CHOOSE t \in Catalogue : t.name = n

Registered(n) == registry[n].kind # "absent"

\* The call was let through to an entry point (it ran the wrapper's body).
Ran == lastCall.status \in {"ok", "failed"}

\* C1: after a batch of two or more tools was registered, the entry point
\* registered under T's name hands its input to T's invoke and to no other
\* tool's, wherever T stands in the list.
C1_EntryPointInvokesOwnTool ==
    (regStatus = "returned" /\ Len(tools) >= 2 /\ Ran)
        => \A k \in 1..Len(lastCall.invoked) :
              lastCall.invoked[k].tool = lastCall.name

\* C2: for every tool registered with a declared schema, the parameters the
\* bridged entry point requires are exactly the fields without a default in
\* the schema (a default of None is a default).
C2_RequiredMirrorsSchema ==
    \A i \in 1..Len(tools) :
        (Registered(tools[i].name) /\ registry[tools[i].name].kind = "wrapper")
            => BridgeRequired(registry[tools[i].name]) = SchemaRequired(tools[i])

\* A tool whose metadata extraction or schema introspection raises.
Offending(t) == tool_metadata_raises(t) \/ introspection_raises(t)

\* C3: when one tool of the batch raises in metadata extraction or schema
\* introspection, the registration call does not raise, and once it returned
\* every other tool of the batch is registered and the offending one is not.
C3_OneOffendingToolIsSkipped ==
    (/\ Cardinality({i \in 1..Len(tools) : Offending(tools[i])}) = 1
     /\ \A i \in 1..Len(tools) : tools[i].mcpOk)
        => /\ regStatus # "raised"
           /\ regStatus = "returned"
                => \A i \in 1..Len(tools) :
                      Registered(tools[i].name) <=> ~Offending(tools[i])

\* The raw-string type mismatch simple_wrapper falls back on: the tool
\* rejected the string, before any of its work.
RawStringMismatch(rec) ==
    rec.input.kind = "str" /\ rec.exc = "TypeError" /\ ~rec.worked

\* C4: when an invoke of the bridged call raises (other than the raw-string
\* type mismatch of a schema-less tool), the call ends as a failed call that
\* carries that exception, and returns no value.
C4_InvokeExceptionPropagates ==
    \A k \in 1..Len(lastCall.invoked) :
        (lastCall.invoked[k].exc # "none" /\ ~RawStringMismatch(lastCall.invoked[k]))
            => /\ lastCall.status = "failed"
               /\ lastCall.exc = lastCall.invoked[k].exc
               /\ lastCall.ret = NoValue

C4_Witness ==
    /\ lastCall.status = "failed"
    /\ Len(lastCall.invoked) = 1
    /\ lastCall.invoked[1].tool = "failing_structured"
    /\ lastCall.invoked[1].exc = "ValueError"

\* C5: a call with a plain string to the entry point of a schema-less tool T
\* succeeds and returns T.invoke(string) when T accepts a string, and
\* T.invoke({"input": string}) when T rejects the raw string as a type
\* mismatch (and takes the dict).
C5_SchemalessCallSucceeds ==
    LET t == ToolNamed(lastCall.name) IN
    (/\ regStatus = "returned"
     /\ lastCall.status \notin {"none", "unknown"}
     /\ registry[lastCall.name].kind = "simple_wrapper"
     /\ "input" \in lastCall.args)
        => /\ t.strIn = "accept"
                => /\ lastCall.status = "ok"
                   /\ lastCall.ret = ToStr(invoke(t, StrInput).val)
           /\ (t.strIn = "TypeError" /\ t.dictIn = "accept")
                => /\ lastCall.status = "ok"
                   /\ lastCall.ret = ToStr(invoke(t, DictInput({"input"})).val)

\* C6: for a bridged tool T whose schema declares a required parameter, a
\* call that omits it is rejected without any invoke, and a call that
\* supplies it reaches T and returns a string.
C6_RequiredParameterEnforced ==
    LET t == ToolNamed(lastCall.name) IN
    (/\ regStatus = "returned"
     /\ lastCall.status \notin {"none", "unknown"}
     /\ registry[lastCall.name].kind = "wrapper"
     /\ SchemaRequired(t) # {}
     /\ t.dictIn = "accept")
        => IF SchemaRequired(t) \subseteq lastCall.args
           THEN /\ lastCall.status = "ok"
                /\ lastCall.ret.isStr
                /\ lastCall.invoked[1].tool = t.name
           ELSE /\ lastCall.status = "rejected"
                /\ lastCall.invoked = <<>>

\* C7: a tools/call naming the registered tool search_knowledge_base with the
\* arguments {"input": <string>} yields a result, not an error.
C7_InputArgumentYieldsResult ==
    (/\ lastCall.name = "search_knowledge_base"
     /\ Registered("search_knowledge_base")
     /\ lastCall.args = {"input"})
        => lastCall.status = "ok"

\* C8: every successful bridged call returns a str: the str the invoked tool
\* returned, unchanged, or the str() of the object it returned.
C8_SuccessfulCallReturnsString ==
    lastCall.status = "ok"
        => LET n == Len(lastCall.invoked)
               last == lastCall.invoked[n]
           IN  /\ n >= 1
               /\ last.exc = "none"
               /\ lastCall.ret.isStr
               /\ lastCall.ret.by = last.tool
               /\ lastCall.ret.arg = last.input
               /\ lastCall.ret.viaStr = ~ToolNamed(last.tool).retStr

C8_Witness ==
    /\ lastCall.status = "ok"
    /\ lastCall.ret.viaStr
    /\ lastCall.ret.by = "lookup"

\* C20: a bridged call invokes the tool once when the entry point was
\* registered for a declared schema; without a schema it invokes it at most
\* twice, the second time with {"input": value} and only after the first
\* invocation rejected the raw string with a TypeError before any of the
\* tool's work; there is no other retry.
C20_OneInvokeOrMismatchFallback ==
    Ran =>
        IF registry[lastCall.name].kind = "wrapper"
        THEN Len(lastCall.invoked) = 1
        ELSE /\ Len(lastCall.invoked) \in {1, 2}
             /\ lastCall.invoked[1].input = StrInput
             /\ Len(lastCall.invoked) = 2 =>
                   /\ RawStringMismatch(lastCall.invoked[1])
                   /\ lastCall.invoked[2].input = DictInput({"input"})

(***************************************************************************)
(* Concurrency.  The protocol server runs one cooperative scheduler (the   *)
(* asyncio event loop thread).  An entry point runs on that thread until   *)
(* it awaits; asyncio.to_thread hands a function to the loop's default     *)
(* executor, a pool of `capacity` worker threads, and the coroutine        *)
(* resumes on the scheduler when the function has returned.                *)
(*                                                                         *)
(* An invocation is of one of three kinds:                                 *)
(*   "bridged"    wrapper / simple_wrapper of a bridged LangChain tool     *)
(*   "langgraph"  agent_wrapper of register_langgraph_agent_as_mcp         *)
(*   "adapter"    agent_tool of MCPServerAdapter.register_agent_as_tool,   *)
(*                a plain `def`, which the server calls on its own thread  *)
(* and is at                                                               *)
(*   "pending"    request accepted, entry point not started                *)
(*   "compiling"  inside agent_function()                                  *)
(*   "queued"     work submitted to the pool, awaiting a worker            *)
(*   "invoking"   inside the tool's / agent's blocking invocation          *)
(*   "finished"   the worker has returned, the coroutine is to resume      *)
(*   "done"       the entry point has returned                             *)
(* `on` is the thread the invocation's blocking work is running on.        *)
(***************************************************************************)
CallIds == 1..NCalls

Kinds == {"bridged", "langgraph", "adapter"}

\* (mutant) the invocation is made in the coroutine itself
InvokeSite_Inline(kind) == "scheduler"

\* Where the blocking invocation of an entry point runs: wrapper,
\* simple_wrapper and agent_wrapper await asyncio.to_thread(...); agent_tool
\* calls agent.process_message(message) itself.
InvokeSite(kind) == IF kind = "adapter" THEN "scheduler" ELSE "worker"

\* (mutant) agent_function() is called by every call of the agent tool
cache_is_empty_Uncached(kind) == kind = "langgraph"

\* `if _agent_cache is None:` of agent_wrapper (the other entry points have
\* no agent to compile)
cache_is_empty(kind) == kind = "langgraph" /\ agent_cache = None

\* How the blocking work of an entry point can end: lc_tool.invoke and
\* _agent_cache.invoke return or raise; agent.process_message returns an
\* AgentExecution (success with or without tools_used, or failure) or raises.
Outcomes(kind) ==
    IF kind = "adapter" THEN {"returned", "used_tools", "failed", "raised"}
    ELSE {"returned", "raised"}

\* wrapper / simple_wrapper: no try around the await, the exception of the
\* tool propagates; the result is returned as a str.
wrapper_returns(w) ==
    IF w = "raised" THEN Reply(TRUE, <<>>) ELSE Reply(FALSE, <<"result">>)

\* (mutant) agent_wrapper without its `except Exception`
agent_wrapper_returns_Uncaught(w) == wrapper_returns(w)

\* agent_wrapper: the content of the last message, or, for any exception of
\* agent_function() or of the invoke, f"Erro no agente LangGraph: {str(e)}".
agent_wrapper_returns(w) ==
    IF w = "raised" THEN Reply(FALSE, <<"Erro no agente LangGraph: ", str_e>>)
    ELSE Reply(FALSE, <<"content">>)

\* agent_tool of register_agent_as_tool, for the ways process_message ends
agent_tool_returns(w) ==
    CASE w = "returned" -> Reply(FALSE, <<"response">>)
      [] w = "used_tools" ->
            Reply(FALSE, <<"response", "\n\nTools used: ", "search_knowledge_base">>)
      [] w = "failed" ->
            Reply(FALSE, <<"Agent execution failed: ">> \o error_message_of_failure)
      [] w = "raised" ->
            Reply(FALSE, <<"Error in agent tool '", "tool_name", "': ", str_e>>)

entry_point_returns(kind, w) ==
    CASE kind = "bridged" -> wrapper_returns(w)
      [] kind = "langgraph" -> agent_wrapper_returns(w)
      [] kind = "adapter" -> agent_tool_returns(w)

At(c, pc, on) == [calls EXCEPT ![c].pc = pc, ![c].on = on]

BusyWorkers == {c \in CallIds : calls[c].on = "worker"}

\* The scheduler runs the entry point of c up to its first await (or, for
\* work it does itself, into that work).
Start(c) ==
    /\ calls[c].pc = "pending"
    /\ sched = 0
    /\ IF cache_is_empty(calls[c].kind)
       THEN \* _agent_cache = agent_function(), in the coroutine
            /\ calls' = At(c, "compiling", "scheduler")
            /\ sched' = c
            /\ queue' = queue
       ELSE IF InvokeSite(calls[c].kind) = "worker"
       THEN /\ calls' = At(c, "queued", "none")
            /\ sched' = 0
            /\ queue' = Append(queue, c)
       ELSE /\ calls' = At(c, "invoking", "scheduler")
            /\ sched' = c
            /\ queue' = queue
    /\ UNCHANGED <<capacity, agent_cache, compilations, invoked_agent, work,
                   reply>>
    /\ UNCHANGED offConc

\* agent_function() returns the compiled agent, which is cached, and the
\* coroutine goes on to await asyncio.to_thread(_run_agent) ...
CompileReturns(c) ==
    /\ calls[c].pc = "compiling"
    /\ compilations' = Append(compilations, [by |-> c, outcome |-> "returned"])
    /\ agent_cache' = Some(Len(compilations'))
    /\ calls' = At(c, "queued", "none")
    /\ queue' = Append(queue, c)
    /\ sched' = 0
    /\ UNCHANGED <<capacity, invoked_agent, work, reply>>
    /\ UNCHANGED offConc

\* ... or raises: `except Exception` returns the error text, nothing is cached.
CompileRaises(c) ==
    /\ calls[c].pc = "compiling"
    /\ compilations' = Append(compilations, [by |-> c, outcome |-> "raised"])
    /\ work' = [work EXCEPT ![c] = "raised"]
    /\ reply' = [reply EXCEPT ![c] = agent_wrapper_returns("raised")]
    /\ calls' = At(c, "done", "none")
    /\ sched' = 0
    /\ UNCHANGED <<queue, capacity, agent_cache, invoked_agent>>
    /\ UNCHANGED offConc

\* A free worker of the pool takes the oldest submitted work; _run_agent
\* calls the invoke of the agent that _agent_cache refers to at that moment.
WorkerStart(c) ==
    /\ queue # <<>>
    /\ Head(queue) = c
    /\ Cardinality(BusyWorkers) < capacity
    /\ calls' = At(c, "invoking", "worker")
    /\ queue' = Tail(queue)
    /\ invoked_agent' = IF calls[c].kind = "langgraph"
                        THEN [invoked_agent EXCEPT ![c] = agent_cache[1]]
                        ELSE invoked_agent
    /\ UNCHANGED <<sched, capacity, agent_cache, compilations, work, reply>>
    /\ UNCHANGED offConc

\* The invocation returns (or raises) on its worker.
WorkerFinish(c) ==
    /\ calls[c].pc = "invoking"
    /\ calls[c].on = "worker"
    /\ calls' = At(c, "finished", "none")
    /\ \E o \in Outcomes(calls[c].kind) : work' = [work EXCEPT ![c] = o]
    /\ UNCHANGED <<sched, queue, capacity, agent_cache, compilations,
                   invoked_agent, reply>>
    /\ UNCHANGED offConc

\* The scheduler resumes the coroutine after its await (which raises what
\* the function raised on the worker): the entry point returns or raises.
Resume(c) ==
    /\ calls[c].pc = "finished"
    /\ sched = 0
    /\ calls' = At(c, "done", "none")
    /\ reply' = [reply EXCEPT ![c] = entry_point_returns(calls[c].kind, work[c])]
    /\ UNCHANGED <<sched, queue, capacity, agent_cache, compilations,
                   invoked_agent, work>>
    /\ UNCHANGED offConc

\* The invocation made on the scheduler thread returns (or raises).
InlineFinish(c) ==
    /\ calls[c].pc = "invoking"
    /\ calls[c].on = "scheduler"
    /\ calls' = At(c, "done", "none")
    /\ sched' = 0
    /\ \E o \in Outcomes(calls[c].kind) :
          /\ work' = [work EXCEPT ![c] = o]
          /\ reply' = [reply EXCEPT ![c] = entry_point_returns(calls[c].kind, o)]
    /\ UNCHANGED <<queue, capacity, agent_cache, compilations, invoked_agent>>
    /\ UNCHANGED offConc

BridgeIdle ==
    /\ tools = <<>>
    /\ idx = 1
    /\ lc_tool = 0
    /\ registry = [n \in Names |-> NotRegistered]
    /\ regStatus = "returned"
    /\ lastCall = NoCall

InitConc ==
    /\ calls \in [CallIds -> [kind : Kinds, pc : {"pending"}, on : {"none"}]]
    /\ sched = 0
    /\ queue = <<>>
    /\ capacity \in 1..MaxPool
    /\ agent_cache = None
    /\ compilations = <<>>
    /\ invoked_agent = [c \in 1..NCalls |-> 0]
    /\ work = [c \in 1..NCalls |-> "none"]
    /\ reply = [c \in 1..NCalls |-> NoReply]
    /\ BridgeIdle
    /\ AgentIdle
    /\ CalcIdle
    /\ AutoIdle
    /\ RepoIdle
    /\ AdapterIdle
    /\ GraphIdle
    /\ StartIdle

NextConc ==
    \E c \in CallIds :
        \/ Start(c)
        \/ CompileReturns(c)
        \/ CompileRaises(c)
        \/ WorkerStart(c)
        \/ WorkerFinish(c)
        \/ Resume(c)
        \/ InlineFinish(c)

\* The event loop runs every ready coroutine, the pool runs every submitted
\* function, and every invocation and compilation comes to an end.
FairConc ==
    \A c \in CallIds :
        /\ WF_vars(Start(c))
        /\ WF_vars(CompileReturns(c) \/ CompileRaises(c))
        /\ WF_vars(WorkerStart(c))
        /\ WF_vars(WorkerFinish(c))
        /\ WF_vars(Resume(c))
        /\ WF_vars(InlineFinish(c))

SpecConc == InitConc /\ [][NextConc]_vars /\ FairConc

(***************************************************************************)
(* Claims about concurrency (checked under SpecConc)                       *)
(***************************************************************************)
OnlyBridged == \A c \in CallIds : calls[c].kind = "bridged"

AllDone == \A c \in CallIds : calls[c].pc = "done"

\* The next step of d is enabled.
CanProceed(d) ==
    /\ calls[d].pc = "pending" => ENABLED Start(d)
    /\ calls[d].pc = "queued" => \E e \in CallIds : ENABLED WorkerStart(e)
    /\ calls[d].pc = "invoking" => ENABLED WorkerFinish(d)
    /\ calls[d].pc = "finished" => ENABLED Resume(d)

\* While the invoke of one bridged call is running, every other bridged call
\* can take its next step.
NotBlockedByInvoke ==
    \A c, d \in CallIds :
        (c # d /\ calls[c].pc = "invoking") => CanProceed(d)

\* C9: concurrent invocations of bridged tools, no more of them than the
\* pool has workers, all complete, and while the invoke of one is running
\* the others can be started, run and completed.
C9_BridgedCallsDoNotBlock ==
    /\ [](OnlyBridged /\ NCalls <= capacity => NotBlockedByInvoke)
    /\ (OnlyBridged /\ NCalls <= capacity) ~> AllDone

C9_Witness ==
    /\ OnlyBridged
    /\ NCalls <= capacity
    /\ \E c, d \in CallIds :
          /\ calls[c].pc = "invoking"
          /\ calls[c].on = "worker"
          /\ calls[d].pc = "done"

\* C10: no blocking work of a tool invocation (compiling the agent, invoking
\* the agent or the tool) runs on the scheduler thread.
C10_BlockingWorkRunsOnWorkers ==
    \A c \in CallIds :
        calls[c].pc \in {"compiling", "invoking"} => calls[c].on = "worker"

Returned_compilations ==
    {i \in 1..Len(compilations) : compilations[i].outcome = "returned"}

\* The invocation has run agent_wrapper up to or past `if _agent_cache is None`.
Entered(c) == calls[c].kind = "langgraph" /\ calls[c].pc # "pending"

\* C21: over every interleaving of calls of the agent tool, agent_function
\* is called at most once as long as it does not raise (no call of it
\* follows one that returned), every call invokes the one compiled agent
\* that call returned, and while every agent_function call has raised
\* nothing is cached and every call that entered has called it itself.
C21_AgentCompiledOnce ==
    /\ Cardinality(Returned_compilations) <= 1
    /\ Returned_compilations \subseteq {Len(compilations)}
    /\ agent_cache = IF Returned_compilations = {} THEN None
                     ELSE Some(Len(compilations))
    /\ \A c \in CallIds :
          invoked_agent[c] # 0 =>
              /\ Returned_compilations # {}
              /\ invoked_agent[c] = Len(compilations)
    /\ Returned_compilations = {} =>
          \A c \in CallIds :
              Entered(c) =>
                  \/ calls[c].pc = "compiling"
                  \/ \E i \in 1..Len(compilations) : compilations[i].by = c

\* agent_function has returned and two calls have completed, both having
\* invoked the agent it returned
C21_Witness ==
    /\ Len(compilations) >= 1
    /\ compilations[Len(compilations)].outcome = "returned"
    /\ \E c, d \in CallIds :
          /\ c # d
          /\ calls[c].pc = "done"
          /\ calls[d].pc = "done"
          /\ invoked_agent[c] # 0
          /\ invoked_agent[d] = invoked_agent[c]

AgentEntryPoint(c) == calls[c].kind \in {"langgraph", "adapter"}

\* The texts the agent entry points return for a failure start with
ErrorPrefixes ==
    {"Erro no agente LangGraph: ", "Error in agent tool '",
     "Agent execution failed: "}

\* C22: agent_wrapper and agent_tool never raise to the protocol layer: a
\* completed call has returned a text; when agent compilation, the agent's
\* invoke or process_message failed it is an error text carrying the
\* exception's message, and a failed AgentExecution is returned as the text
\* "Agent execution failed: " followed by its error message.
C22_AgentEntryPointsReturnText ==
    \A c \in CallIds :
        (AgentEntryPoint(c) /\ calls[c].pc = "done") =>
            /\ ~reply[c].raised
            /\ reply[c].text # <<>>
            /\ work[c] = "raised" =>
                  /\ reply[c].text[1] \in ErrorPrefixes
                  /\ reply[c].text[Len(reply[c].text)] = str_e
            /\ work[c] = "failed" =>
                  /\ reply[c].text[1] = "Agent execution failed: "
                  /\ SubSeq(reply[c].text, 2, Len(reply[c].text))
                        = error_message_of_failure

\* the agent's invoke raised under agent_wrapper, and process_message
\* returned a failed AgentExecution under agent_tool; both calls completed
C22_Witness ==
    \E c, d \in CallIds :
        /\ calls[c].kind = "langgraph"
        /\ calls[c].pc = "done"
        /\ invoked_agent[c] # 0
        /\ work[c] = "raised"
        /\ calls[d].kind = "adapter"
        /\ calls[d].pc = "done"
        /\ work[d] = "failed"

(***************************************************************************)
(* Strings and the keyword decision.  A str is the sequence of its         *)
(* characters, so that lower-casing and the substring test of `keyword in  *)
(* query_lower` are computed, character by character.                      *)
(***************************************************************************)
\* the characters queries are drawn from
Alphabet == {"i", "a", "A", "g"}

UpperLetters ==
    <<"A", "B", "C", "D", "E", "F", "G", "H", "I", "J", "K", "L", "M",
      "N", "O", "P", "Q", "R", "S", "T", "U", "V", "W", "X", "Y", "Z">>

LowerLetters ==
    <<"a", "b", "c", "d", "e", "f", "g", "h", "i", "j", "k", "l", "m",
      "n", "o", "p", "q", "r", "s", "t", "u", "v", "w", "x", "y", "z">>

\* str.lower() of one character: an upper-case letter becomes its lower-case
\* letter, every other character is kept
lower_char(c) ==
    IF \E n \in 1..Len(UpperLetters) : UpperLetters[n] = c
    THEN LowerLetters[CHOOSE n \in 1..Len(UpperLetters) : UpperLetters[n] = c]
    ELSE c

\* str.lower()
lower(s) == [i \in 1..Len(s) |-> lower_char(s[i])]

\* `k in s` for two str
IsSubstring(k, s) ==
    /\ Len(k) <= Len(s)
    /\ \E i \in 0..(Len(s) - Len(k)) : SubSeq(s, i + 1, i + Len(k)) = k

\* any(keyword in text for keyword in keywords)
AnyKeywordIn(keywords, text) ==
    \E n \in 1..Len(keywords) : IsSubstring(keywords[n], text)

\* self.knowledge_keywords of AgentOrchestrationUseCase.__init__
knowledge_keywords ==
    <<<<"p", "y", "t", "h", "o", "n">>,
      <<"p", "r", "o", "g", "r", "a", "m", "a", "ç", "ã", "o">>,
      <<"l", "a", "n", "g", "g", "r", "a", "p", "h">>,
      <<"c", "h", "r", "o", "m", "a", "d", "b">>,
      <<"o", "l", "l", "a", "m", "a">>,
      <<"m", "a", "c", "h", "i", "n", "e", " ", "l", "e", "a", "r", "n", "i", "n", "g">>,
      <<"i", "a">>,
      <<"i", "n", "t", "e", "l", "i", "g", "ê", "n", "c", "i", "a", " ", "a", "r", "t", "i", "f", "i", "c", "i", "a", "l">>,
      <<"r", "a", "g">>,
      <<"d", "e", "e", "p", " ", "l", "e", "a", "r", "n", "i", "n", "g">>,
      <<"n", "l", "p">>,
      <<"c", "o", "n", "c", "e", "i", "t", "o">>,
      <<"o", " ", "q", "u", "e", " ", "é">>,
      <<"c", "o", "m", "o", " ", "f", "u", "n", "c", "i", "o", "n", "a">>>>

\* knowledge_keywords of call_model in graphs/graph.py
knowledge_keywords_graph ==
    <<<<"p", "y", "t", "h", "o", "n">>,
      <<"p", "r", "o", "g", "r", "a", "m", "a", "ç", "ã", "o">>,
      <<"l", "a", "n", "g", "g", "r", "a", "p", "h">>,
      <<"c", "h", "r", "o", "m", "a", "d", "b">>,
      <<"o", "l", "l", "a", "m", "a">>,
      <<"m", "a", "c", "h", "i", "n", "e", " ", "l", "e", "a", "r", "n", "i", "n", "g">>,
      <<"i", "a">>,
      <<"i", "n", "t", "e", "l", "i", "g", "ê", "n", "c", "i", "a", " ", "a", "r", "t", "i", "f", "i", "c", "i", "a", "l">>,
      <<"r", "a", "g">>,
      <<"d", "e", "e", "p", " ", "l", "e", "a", "r", "n", "i", "n", "g">>,
      <<"n", "l", "p">>,
      <<"c", "o", "n", "c", "e", "i", "t", "o">>,
      <<"o", " ", "q", "u", "e", " ", "é">>,
      <<"c", "o", "m", "o", " ", "f", "u", "n", "c", "i", "o", "n", "a">>>>

\* (mutant) the list of main.py without 'ia'
knowledge_keywords_without_ia ==
    <<<<"p", "y", "t", "h", "o", "n">>,
      <<"p", "r", "o", "g", "r", "a", "m", "a", "ç", "ã", "o">>,
      <<"l", "a", "n", "g", "g", "r", "a", "p", "h">>,
      <<"c", "h", "r", "o", "m", "a", "d", "b">>,
      <<"o", "l", "l", "a", "m", "a">>,
      <<"m", "a", "c", "h", "i", "n", "e", " ", "l", "e", "a", "r", "n", "i", "n", "g">>,
      <<"i", "n", "t", "e", "l", "i", "g", "ê", "n", "c", "i", "a", " ", "a", "r", "t", "i", "f", "i", "c", "i", "a", "l">>,
      <<"r", "a", "g">>,
      <<"d", "e", "e", "p", " ", "l", "e", "a", "r", "n", "i", "n", "g">>,
      <<"n", "l", "p">>,
      <<"c", "o", "n", "c", "e", "i", "t", "o">>,
      <<"o", " ", "q", "u", "e", " ", "é">>,
      <<"c", "o", "m", "o", " ", "f", "u", "n", "c", "i", "o", "n", "a">>>>

\* knowledge_keywords of call_model in main.py
knowledge_keywords_main ==
    <<<<"p", "y", "t", "h", "o", "n">>,
      <<"p", "r", "o", "g", "r", "a", "m", "a", "ç", "ã", "o">>,
      <<"l", "a", "n", "g", "g", "r", "a", "p", "h">>,
      <<"c", "h", "r", "o", "m", "a", "d", "b">>,
      <<"o", "l", "l", "a", "m", "a">>,
      <<"m", "a", "c", "h", "i", "n", "e", " ", "l", "e", "a", "r", "n", "i", "n", "g">>,
      <<"i", "a">>,
      <<"i", "n", "t", "e", "l", "i", "g", "ê", "n", "c", "i", "a", " ", "a", "r", "t", "i", "f", "i", "c", "i", "a", "l">>,
      <<"r", "a", "g">>,
      <<"d", "e", "e", "p", " ", "l", "e", "a", "r", "n", "i", "n", "g">>,
      <<"n", "l", "p">>,
      <<"c", "o", "n", "c", "e", "i", "t", "o">>,
      <<"o", " ", "q", "u", "e", " ", "é">>,
      <<"c", "o", "m", "o", " ", "f", "u", "n", "c", "i", "o", "n", "a">>>>

\* AgentOrchestrationUseCase._should_use_tools
should_use_tools(query) == AnyKeywordIn(knowledge_keywords, lower(query))

\* the strings of at most n characters
StringsUpTo(n) == UNION {[1..m -> Alphabet] : m \in 0..n}

(***************************************************************************)
(* The tool repository (LangChainToolRepository)                           *)
(***************************************************************************)
ToolNames == {"web_search", "wikipedia_search", "search_knowledge_base", "calculator"}

ParamKeys == {"query", "expression", "input"}

\* parameters.get(key, default)
get(parameters, key, default) ==
    IF key \in DOMAIN parameters THEN parameters[key] ELSE default

\* str(parameters), the default of the generic branch
str_of_mapping == <<"{", "}">>

\* LangChainToolRepository.is_tool_available
is_tool_available(tool_name) == tool_name \in repo_tools

\* the argument execute_tool hands to tool.run
run_argument(tool_name, parameters) ==
    IF tool_name \in {"web_search", "wikipedia_search", "search_knowledge_base"}
    THEN get(parameters, "query", <<>>)
    ELSE IF tool_name = "calculator"
    THEN get(parameters, "expression", <<>>)
    ELSE get(parameters, "input", str_of_mapping)

ToolText(kind, tool_name, arg) == [kind |-> kind, tool |-> tool_name, arg |-> arg]

\* (mutant) execute_tool without its try/except: an exception of tool.run
\* leaves the method
execute_tool_Unguarded(tool_name, parameters, run) ==
    IF ~is_tool_available(tool_name)
    THEN [raised |-> FALSE, ret |-> Some(ToolText("unavailable", tool_name, <<>>))]
    ELSE IF run = "raises"
    THEN [raised |-> TRUE, ret |-> None]
    ELSE [raised |-> FALSE,
          ret |-> Some(ToolText("result", tool_name, run_argument(tool_name, parameters)))]

\* LangChainToolRepository.execute_tool, `run` being what tool.run does
\* ("returns" | "raises"): [raised, ret]
execute_tool(tool_name, parameters, run) ==
    IF ~is_tool_available(tool_name)
    THEN \* "Ferramenta '...' nao esta disponivel"
         [raised |-> FALSE, ret |-> Some(ToolText("unavailable", tool_name, <<>>))]
    ELSE IF run = "raises"
    THEN \* except Exception: "Erro ao executar ferramenta '...': ..."
         [raised |-> FALSE,
          ret |-> Some(ToolText("error", tool_name, run_argument(tool_name, parameters)))]
    ELSE [raised |-> FALSE,
          ret |-> Some(ToolText("result", tool_name, run_argument(tool_name, parameters)))]

(***************************************************************************)
(* The orchestrator (AgentOrchestrationUseCase).  Threads call             *)
(* execute_query on one instance; the instance holds no lock, so the       *)
(* statements of two calls interleave.                                     *)
(***************************************************************************)
\* the queries sent: "" (answered directly) and "IA" (matches 'ia')
AgentQueries == {<<>>, <<"I", "A">>}

\* (mutant) update_status that records the task only
update_status_KeepsStatus(st, status, task) ==
    [st EXCEPT !.current_task = IF task # None /\ task[1] # <<>> THEN task ELSE @]

\* AgentState.update_status: `if task:` is false for None and for ""
update_status(st, status, task) ==
    [st EXCEPT !.status = status,
               !.current_task = IF task # None /\ task[1] # <<>> THEN task ELSE @]

Contains(seq, x) == \E i \in 1..Len(seq) : seq[i] = x

\* the text the provider generated for a prompt made of the query and, on
\* the tool path, of the tool's result
LLMText(query, tool_result) ==
    [kind |-> "llm", query |-> query, tool_result |-> tool_result, exc |-> "none"]

\* f"Agent execution failed: {str(e)}"
ErrorText(query, exc) ==
    [kind |-> "Agent execution failed", query |-> query, tool_result |-> None,
     exc |-> exc]

\* (mutant) an AgentExecution built without its error_message
AgentExecution_NoError(query, response, tools_used, success, error_message) ==
    [query |-> query, response |-> response, tools_used |-> tools_used,
     success |-> success, error_message |-> None]

AgentExecution(query, response, tools_used, success, error_message) ==
    [query |-> query, response |-> response, tools_used |-> tools_used,
     success |-> success, error_message |-> error_message]

InFlight(e) == exec[e].pc \notin {"idle", "returned"}

\* execute_query(query) is entered: update_status(PROCESSING, query), then
\* needs_tools = self._should_use_tools(query)
Begin(e) ==
    /\ exec[e].pc = "idle"
    /\ started < MaxQueries
    /\ \E query \in AgentQueries :
        LET others == {f \in Threads : f # e /\ InFlight(f)} IN
        /\ state' = update_status(state, "PROCESSING", Some(query))
        /\ exec' = [f \in Threads |->
                      IF f = e
                      THEN [IdleExec EXCEPT
                              !.pc = IF should_use_tools(query)
                                     THEN "using_tools" ELSE "generate",
                              !.path = IF should_use_tools(query)
                                       THEN "tools" ELSE "direct",
                              !.query = query,
                              !.base = state.tools_used,
                              !.alone = (others = {})]
                      ELSE IF f \in others
                      THEN [exec[f] EXCEPT !.alone = FALSE]
                      ELSE exec[f]]
    /\ started' = started + 1
    /\ UNCHANGED <<repo_tools, lastTool>>
    /\ UNCHANGED offAgent

\* _execute_with_tools: self.state.update_status(AgentStatus.USING_TOOLS)
UsingTools(e) ==
    /\ exec[e].pc = "using_tools"
    /\ state' = update_status(state, "USING_TOOLS", None)
    /\ exec' = [exec EXCEPT ![e].pc = "add_check"]
    /\ UNCHANGED <<started, repo_tools, lastTool>>
    /\ UNCHANGED offAgent

\* add_tool_usage: `if tool_name not in self.tools_used`
AddToolCheck(e) ==
    /\ exec[e].pc = "add_check"
    /\ exec' = [exec EXCEPT ![e].pc = "add_append",
                            ![e].hit = Contains(state.tools_used, "search_knowledge_base")]
    /\ UNCHANGED <<state, started, repo_tools, lastTool>>
    /\ UNCHANGED offAgent

\* add_tool_usage: `self.tools_used.append(tool_name)`
AddToolAppend(e) ==
    /\ exec[e].pc = "add_append"
    /\ state' = IF exec[e].hit THEN state
                ELSE [state EXCEPT !.tools_used = Append(@, "search_knowledge_base")]
    /\ exec' = [exec EXCEPT ![e].pc = "execute_tool"]
    /\ UNCHANGED <<started, repo_tools, lastTool>>
    /\ UNCHANGED offAgent

\* tool_result = self.tool_repository.execute_tool(tool_name, {"query": query})
ExecuteTool(e) ==
    /\ exec[e].pc = "execute_tool"
    /\ \E run \in {"returns", "raises"} :
        LET r == execute_tool("search_knowledge_base",
                              [k \in {"query"} |-> exec[e].query], run)
        IN  exec' = IF r.raised
                    THEN [exec EXCEPT ![e].pc = "except", ![e].exc = "tool"]
                    ELSE [exec EXCEPT ![e].pc = "generate", ![e].tool_result = r.ret]
    /\ UNCHANGED <<state, started, repo_tools, lastTool>>
    /\ UNCHANGED offAgent

\* (mutant) a provider error is retried once before it is given up
Generate_Retrying(e) ==
    /\ exec[e].pc = "generate"
    /\ \E out \in {"returns", "raises"} :
        exec' = IF out = "returns"
                THEN [exec EXCEPT ![e].pc = "complete",
                                  ![e].llm_calls = @ + 1,
                                  ![e].response =
                                      Some(LLMText(exec[e].query, exec[e].tool_result))]
                ELSE IF exec[e].llm_calls = 0
                THEN [exec EXCEPT ![e].llm_calls = @ + 1]
                ELSE [exec EXCEPT ![e].pc = "except",
                                  ![e].llm_calls = @ + 1,
                                  ![e].exc = "llm"]
    /\ UNCHANGED <<state, started, repo_tools, lastTool>>
    /\ UNCHANGED offAgent

\* response = self.llm_provider.generate_response(prompt): the provider
\* answers, or raises (providers.py logs and re-raises)
Generate(e) ==
    /\ exec[e].pc = "generate"
    /\ \E out \in {"returns", "raises"} :
        exec' = IF out = "returns"
                THEN [exec EXCEPT ![e].pc = "complete",
                                  ![e].llm_calls = @ + 1,
                                  ![e].response =
                                      Some(LLMText(exec[e].query, exec[e].tool_result))]
                ELSE [exec EXCEPT ![e].pc = "except",
                                  ![e].llm_calls = @ + 1,
                                  ![e].exc = "llm"]
    /\ UNCHANGED <<state, started, repo_tools, lastTool>>
    /\ UNCHANGED offAgent

\* update_status(COMPLETED); last_response = response; return AgentExecution(
\* ..., tools_used=list(self.state.tools_used), success=True)
Complete(e) ==
    /\ exec[e].pc = "complete"
    /\ state' = [update_status(state, "COMPLETED", None)
                    EXCEPT !.last_response = exec[e].response]
    /\ exec' = [exec EXCEPT
                  ![e].pc = "returned",
                  ![e].result = Some(AgentExecution(exec[e].query, exec[e].response[1],
                                                    state.tools_used, TRUE, None))]
    /\ UNCHANGED <<started, repo_tools, lastTool>>
    /\ UNCHANGED offAgent

\* except Exception: update_status(ERROR); error_message = error_msg;
\* return AgentExecution(..., response=error_msg, success=False,
\* error_message=error_msg)
Fail(e) ==
    /\ exec[e].pc = "except"
    /\ LET error_msg == ErrorText(exec[e].query, exec[e].exc) IN
        /\ state' = [update_status(state, "ERROR", None)
                        EXCEPT !.error_message = Some(error_msg)]
        /\ exec' = [exec EXCEPT
                      ![e].pc = "returned",
                      ![e].result = Some(AgentExecution(exec[e].query, error_msg,
                                                        state.tools_used, FALSE,
                                                        Some(error_msg)))]
    /\ UNCHANGED <<started, repo_tools, lastTool>>
    /\ UNCHANGED offAgent

\* the caller has the AgentExecution; the thread is free for another query
Return(e) ==
    /\ exec[e].pc = "returned"
    /\ exec' = [exec EXCEPT ![e] = IdleExec]
    /\ UNCHANGED <<state, started, repo_tools, lastTool>>
    /\ UNCHANGED offAgent

\* AgentOrchestrationUseCase.reset_state, called between queries
reset_state ==
    /\ state # FreshState
    /\ \A e \in Threads : exec[e].pc = "idle"
    /\ state' = FreshState
    /\ UNCHANGED <<exec, started, repo_tools, lastTool>>
    /\ UNCHANGED offAgent

\* the parameter mappings handed to execute_tool by other callers
ParameterMappings ==
    UNION {[K -> {<<>>, <<"g", "g">>}] : K \in SUBSET ParamKeys}

\* a caller other than the orchestrator executes a tool of the repository
ToolCall ==
    /\ lastTool = NoToolCall
    /\ \A e \in Threads : exec[e].pc = "idle"
    /\ \E tool_name \in ToolNames \cup {"unknown_tool"},
          parameters \in ParameterMappings, run \in {"returns", "raises"} :
        LET r == execute_tool(tool_name, parameters, run)
        IN  lastTool' = [name |-> tool_name, run |-> run,
                          raised |-> r.raised, ret |-> r.ret]
    /\ UNCHANGED <<state, exec, started, repo_tools>>
    /\ UNCHANGED offAgent

\* that caller has its string
ToolReturn ==
    /\ lastTool # NoToolCall
    /\ lastTool' = NoToolCall
    /\ UNCHANGED <<state, exec, started, repo_tools>>
    /\ UNCHANGED offAgent

InitAgent ==
    /\ state = FreshState
    /\ exec = [e \in Threads |-> IdleExec]
    /\ started = 0
    /\ repo_tools \in {ToolNames, ToolNames \ {"search_knowledge_base"}, {}}
    /\ lastTool = NoToolCall
    /\ BridgeIdle
    /\ ConcIdle
    /\ CalcIdle
    /\ AutoIdle
    /\ RepoIdle
    /\ AdapterIdle
    /\ GraphIdle
    /\ StartIdle

NextAgent ==
    \/ \E e \in Threads :
        \/ Begin(e)
        \/ UsingTools(e)
        \/ AddToolCheck(e)
        \/ AddToolAppend(e)
        \/ ExecuteTool(e)
        \/ Generate(e)
        \/ Complete(e)
        \/ Fail(e)
        \/ Return(e)
    \/ reset_state
    \/ ToolCall
    \/ ToolReturn

SpecAgent == InitAgent /\ [][NextAgent]_vars

(***************************************************************************)
(* Claims about the orchestrator (checked under SpecAgent)                 *)
(***************************************************************************)
Returned(e) == exec[e].pc = "returned"

\* what the call of e returned
Result(e) == exec[e].result[1]

\* the tools_used a call returns when no other call runs between its first
\* and last statement, on the state it found
AloneToolsUsed(e) ==
    IF exec[e].path = "tools" /\ ~Contains(exec[e].base, "search_knowledge_base")
    THEN Append(exec[e].base, "search_knowledge_base")
    ELSE exec[e].base

\* C11: two execute_query calls on one orchestrator share no mutable state:
\* in every interleaving each call returns the success flag, the response and
\* the tools_used it would return if it ran from the same state with no other
\* call beside it.
C11_OverlappingCallsShareNothing ==
    \A e \in Threads :
        Returned(e) =>
            /\ Result(e).success = (exec[e].exc = "none")
            /\ Result(e).response.query = exec[e].query
            /\ Result(e).tools_used = AloneToolsUsed(e)

\* C12: in a sequence of execute_query calls (none overlapping another), the
\* tools_used of each returned AgentExecution is [search_knowledge_base] when
\* the query took the tool path and [] when it was answered directly,
\* whatever queries came before.
C12_ToolsUsedListsThisQuerysTools ==
    \A e \in Threads :
        (Returned(e) /\ exec[e].alone) =>
            Result(e).tools_used =
                IF exec[e].path = "tools" THEN <<"search_knowledge_base">> ELSE <<>>

\* the tool did not produce a result: it is not in the repository, or its
\* run raised
ToolFailed(text) == text.kind \in {"unavailable", "error"}

\* C13: a failure while executing a tool never aborts the query:
\* execute_tool returns a string (an error text when the tool is unavailable
\* or its run raised) and never raises, for every tool name and parameter
\* mapping; and a tool-path execute_query always has the tool's text, asks
\* the LLM once and returns an AgentExecution, built from that text when the
\* LLM answered.
C13_ToolFailureDoesNotAbortQuery ==
    /\ lastTool # NoToolCall =>
          /\ ~lastTool.raised
          /\ lastTool.ret # None
          /\ ToolFailed(lastTool.ret[1]) <=>
                (~is_tool_available(lastTool.name) \/ lastTool.run = "raises")
    /\ \A e \in Threads :
          (Returned(e) /\ exec[e].path = "tools") =>
              /\ exec[e].exc # "tool"
              /\ exec[e].tool_result # None
              /\ exec[e].llm_calls = 1
              /\ exec[e].result # None
              /\ Result(e).success =>
                    Result(e).response.tool_result = exec[e].tool_result

\* a tool-path query whose tool raised has returned a successful execution
C13_Witness ==
    \E e \in Threads :
        /\ Returned(e)
        /\ exec[e].path = "tools"
        /\ exec[e].tool_result # None
        /\ exec[e].tool_result[1].kind = "error"
        /\ exec[e].llm_calls = 1
        /\ Result(e).success

\* C14: when the provider raises during execute_query the error is caught
\* and returned as text (success false, response and error_message both the
\* 'Agent execution failed' text of that error), and generate_response was
\* called exactly once in that query; no query calls it more than once.
C14_ProviderErrorSurfacedNotRetried ==
    \A e \in Threads :
        /\ exec[e].llm_calls <= 1
        /\ (Returned(e) /\ exec[e].exc = "llm") =>
              /\ exec[e].llm_calls = 1
              /\ ~Result(e).success
              /\ Result(e).response = ErrorText(exec[e].query, "llm")
              /\ Result(e).error_message = Some(Result(e).response)

\* a query whose provider call raised has returned
C14_Witness ==
    \E e \in Threads :
        /\ Returned(e)
        /\ exec[e].exc = "llm"
        /\ ~Result(e).success

\* The status while the call of e, with no other call beside it, is between
\* its first and last statement.
StatusOnPath ==
    \A e \in Threads :
        (InFlight(e) /\ exec[e].alone) =>
            /\ state.status \in {"PROCESSING", "USING_TOOLS"}
            /\ state.status = "USING_TOOLS" <=>
                  (exec[e].path = "tools" /\ exec[e].pc # "using_tools")
            /\ exec[e].path = "tools" <=> should_use_tools(exec[e].query)

\* The status written by the steps of execute_query and reset_state.
StatusStep ==
    /\ \A e \in Threads :
          /\ (exec[e].pc = "idle" /\ exec'[e].pc # "idle") =>
                state'.status = "PROCESSING"
          /\ (exec[e].pc # "returned" /\ exec'[e].pc = "returned") =>
                /\ state'.status \in {"COMPLETED", "ERROR"}
                /\ state'.status = "COMPLETED" <=> exec'[e].result[1].success
    /\ (state'.status = "USING_TOOLS" /\ state.status # "USING_TOOLS") =>
          \E e \in Threads :
              /\ exec'[e].pc # exec[e].pc
              /\ should_use_tools(exec[e].query)
    /\ (state'.status = "IDLE" /\ state.status # "IDLE") =>
          /\ state' = FreshState
          /\ \A e \in Threads : exec[e].pc = "idle"

\* C23: the status follows one path per query: PROCESSING when
\* execute_query starts, USING_TOOLS only for a query that matches a keyword
\* (and only after PROCESSING), COMPLETED or ERROR when the call returns,
\* COMPLETED iff the returned success flag is true; the status is IDLE only
\* in the state of construction or of reset_state, before any query.
C23_StatusPathPerQuery ==
    /\ [](state.status = "IDLE" => state = FreshState)
    /\ []StatusOnPath
    /\ [][StatusStep]_vars

\* a query on the tool path, with no other call beside it, has returned
\* with success and the status is COMPLETED
C23_Witness ==
    \E e \in Threads :
        /\ Returned(e)
        /\ exec[e].alone
        /\ exec[e].path = "tools"
        /\ Result(e).success
        /\ state.status = "COMPLETED"

\* C24: execute_query never raises: whatever the provider and the tool
\* repository do, a call that has left its try block has returned an
\* AgentExecution whose query is the input, in which success is false iff
\* error_message is not None, and whose response is the error_message when
\* success is false.
C24_ExecuteQueryAlwaysReturns ==
    \A e \in Threads :
        /\ exec[e].exc # "none" => exec[e].pc \in {"except", "returned"}
        /\ Returned(e) =>
              /\ exec[e].result # None
              /\ Result(e).query = exec[e].query
              /\ ~Result(e).success <=> Result(e).error_message # None
              /\ ~Result(e).success =>
                    /\ exec[e].exc # "none"
                    /\ Some(Result(e).response) = Result(e).error_message

\* a query on the tool path whose provider call raised has returned a
\* failed AgentExecution naming the query
C24_Witness ==
    \E e \in Threads :
        /\ Returned(e)
        /\ exec[e].path = "tools"
        /\ exec[e].exc = "llm"
        /\ Result(e).query = <<"I", "A">>
        /\ Result(e).error_message # None

\* C25: state.error_message is not None only if the most recent query
\* failed: whenever state.status is COMPLETED, state.error_message is None.
C25_NoErrorMessageWhenCompleted ==
    state.status = "COMPLETED" => state.error_message = None

(***************************************************************************)
(* Start-up: settings, provider factory, orchestrator creation             *)
(***************************************************************************)
ollama == <<"o", "l", "l", "a", "m", "a">>

openai == <<"o", "p", "e", "n", "a", "i">>

gemini == <<"g", "e", "m", "i", "n", "i">>

\* the values of the enum ProviderType
ProviderValues == {ollama, openai, gemini}

\* ProviderType(value): the member with exactly that value, or ValueError
ProviderType(value) ==
    IF value \in ProviderValues
    THEN [exc |-> "none", type |-> Some(value)]
    ELSE [exc |-> "ValueError", type |-> None]

\* os.getenv(key, default)
getenv(key, default) == IF env[key] = None THEN default ELSE env[key][1]

\* (mutant) a key counts as configured as soon as the variable is set
KeyConfigured_WhenSet(key) == key # None

\* the truth value of an api key: `not self.api_key` is false
KeyConfigured(key) == key # None /\ key[1] # <<>>

\* AppSettings.validate, on settings read by from_env: the exception raised
validate(main_provider) ==
    IF main_provider = openai /\ ~KeyConfigured(env["OPENAI_API_KEY"])
    THEN "ValueError"
    ELSE IF main_provider = gemini /\ ~KeyConfigured(env["GEMINI_API_KEY"])
    THEN "ValueError"
    ELSE "none"

\* provider_class() and the logging of get_model_info(): the exception
\* raised; `ctor` is what the rest of the construction does once the key
\* check has passed ("ok" | "Exception")
provider_class(type, ctor) ==
    IF type = openai /\ ~KeyConfigured(env["OPENAI_API_KEY"])
    THEN "ValueError"
    ELSE IF type = gemini /\ ~KeyConfigured(env["GEMINI_API_KEY"])
    THEN "ValueError"
    ELSE IF ctor = "ok" THEN "none" ELSE ctor

\* (mutant) the exception of the construction leaves create_provider as it is
construction_error_Unwrapped(exc) == exc

\* except Exception as e: raise ValueError("Error initializing provider ...")
construction_error(exc) == "ValueError"

\* LLMProviderFactory.create_provider(provider_type): [outcome, type]
create_provider(provider_type, ctor) ==
    LET resolved == IF provider_type = None
                    THEN ProviderType(lower(getenv("MAIN_PROVIDER", ollama)))
                    ELSE [exc |-> "none", type |-> provider_type]
    IN  IF resolved.exc # "none"
        THEN [outcome |-> "ValueError", type |-> None]
        ELSE LET exc == provider_class(resolved.type[1], ctor) IN
             IF exc = "none"
             THEN [outcome |-> "instance", type |-> resolved.type]
             ELSE [outcome |-> construction_error(exc), type |-> None]

\* `from infrastructure.config.settings import settings`: from_env, validate
LoadSettings ==
    /\ boot.pc = "import"
    /\ LET main_provider == getenv("MAIN_PROVIDER", ollama) IN
        boot' = IF validate(main_provider) # "none"
                THEN [boot EXCEPT !.pc = "failed", !.main_provider = main_provider,
                                  !.error = validate(main_provider)]
                ELSE [boot EXCEPT !.pc = "create_provider",
                                  !.main_provider = main_provider]
    /\ UNCHANGED <<env, made>>
    /\ UNCHANGED offStart

\* create_agent_orchestrator: provider_type = ProviderType(main_provider);
\* llm_provider = LLMProviderFactory.create_provider(provider_type); an
\* exception is logged and raised again
CreateProvider ==
    /\ boot.pc = "create_provider"
    /\ \E ctor \in {"ok", "Exception"} :
        LET provider_type == ProviderType(boot.main_provider)
            r == create_provider(provider_type.type, ctor)
        IN  boot' = IF provider_type.exc # "none"
                    THEN [boot EXCEPT !.pc = "failed", !.error = provider_type.exc]
                    ELSE IF r.outcome # "instance"
                    THEN [boot EXCEPT !.pc = "failed", !.error = r.outcome]
                    ELSE [boot EXCEPT !.pc = "create_tools", !.provider = r.type]
    /\ UNCHANGED <<env, made>>
    /\ UNCHANGED offStart

\* embeddings, vector store and tool repository are created, or one of them
\* raises and the exception is logged and raised again
CreateDependencies ==
    /\ boot.pc = "create_tools"
    /\ \E ok \in BOOLEAN :
        boot' = IF ok THEN [boot EXCEPT !.pc = "create_orchestrator"]
                ELSE [boot EXCEPT !.pc = "failed", !.error = "Exception"]
    /\ UNCHANGED <<env, made>>
    /\ UNCHANGED offStart

\* orchestrator = AgentOrchestrationUseCase(llm_provider, tool_repository, config)
CreateOrchestrator ==
    /\ boot.pc = "create_orchestrator"
    /\ boot' = [boot EXCEPT !.pc = "running", !.orchestrator = TRUE]
    /\ UNCHANGED <<env, made>>
    /\ UNCHANGED offStart

\* a query of interactive_mode reaches the provider
CallLLM ==
    /\ boot.pc = "running"
    /\ boot.llm_calls < MaxLLMCalls
    /\ boot' = [boot EXCEPT !.llm_calls = @ + 1]
    /\ UNCHANGED <<env, made>>
    /\ UNCHANGED offStart

\* create_provider called on its own, without argument or with a ProviderType
FactoryCall ==
    /\ made = NotMade
    /\ \E provider_type \in {None} \cup {Some(v) : v \in ProviderValues},
          ctor \in {"ok", "Exception"} :
        LET r == create_provider(provider_type, ctor)
        IN  made' = [called |-> TRUE, arg |-> provider_type, ctor |-> ctor,
                     outcome |-> r.outcome, type |-> r.type]
    /\ UNCHANGED <<env, boot>>
    /\ UNCHANGED offStart

\* the caller has the provider or the exception
FactoryReturn ==
    /\ made # NotMade
    /\ made' = NotMade
    /\ UNCHANGED <<env, boot>>
    /\ UNCHANGED offStart

\* the values MAIN_PROVIDER is given: unset, the three names, other
\* spellings of them, an unknown name, the empty string
MainProviderValues ==
    {None, Some(ollama), Some(openai), Some(gemini),
     Some(<<"O", "p", "e", "n", "A", "I">>), Some(<<"G", "E", "M", "I", "N", "I">>),
     Some(<<"a", "z", "u", "r", "e">>), Some(<<>>)}

\* the values an api key variable is given: unset, empty, a key
ApiKeyValues == {None, Some(<<>>), Some(<<"s", "k">>)}

InitStart ==
    /\ env \in [MAIN_PROVIDER : MainProviderValues,
                OPENAI_API_KEY : ApiKeyValues,
                GEMINI_API_KEY : ApiKeyValues]
    /\ boot = [NotBooted EXCEPT !.pc = "import"]
    /\ made = NotMade
    /\ BridgeIdle
    /\ ConcIdle
    /\ CalcIdle
    /\ AutoIdle
    /\ RepoIdle
    /\ AdapterIdle
    /\ GraphIdle
    /\ AgentIdle

NextStart ==
    \/ LoadSettings
    \/ CreateProvider
    \/ CreateDependencies
    \/ CreateOrchestrator
    \/ CallLLM
    \/ FactoryCall
    \/ FactoryReturn

SpecStart == InitStart /\ [][NextStart]_vars

(***************************************************************************)
(* Claims about start-up (checked under SpecStart)                         *)
(***************************************************************************)
\* the provider the configuration selects
Selected == lower(getenv("MAIN_PROVIDER", ollama))

\* the api key of provider v is unset or empty
KeyMissing(v) ==
    \/ v = openai /\ env["OPENAI_API_KEY"] \in {None, Some(<<>>)}
    \/ v = gemini /\ env["GEMINI_API_KEY"] \in {None, Some(<<>>)}

\* C15: when the selected provider is openai or gemini and its api key is
\* not configured, start-up never gets past the creation of the provider
\* (it is reading the settings, creating the provider, or has failed): no
\* provider instance is returned (to start-up or to a caller of the
\* factory), no orchestrator is created and no LLM call is made.
C15_MissingKeyFailsFast ==
    /\ KeyMissing(Selected) =>
          /\ boot.pc \in {"import", "create_provider", "failed"}
          /\ boot.pc = "create_provider" => boot.main_provider \notin ProviderValues
          /\ boot.provider = None
          /\ ~boot.orchestrator
          /\ boot.llm_calls = 0
          /\ (made.called /\ made.arg = None) =>
                (made.outcome = "ValueError" /\ made.type = None)
    /\ (made.called /\ made.arg # None /\ KeyMissing(made.arg[1])) =>
          (made.outcome = "ValueError" /\ made.type = None)

\* start-up has failed for openai with an empty OPENAI_API_KEY
C15_Witness ==
    /\ Selected = openai
    /\ env["OPENAI_API_KEY"] = Some(<<>>)
    /\ boot.pc = "failed"
    /\ boot.error = "ValueError"

\* C16: create_provider without argument returns a provider whose type is
\* the lower-cased MAIN_PROVIDER (ollama when unset) when that is one of the
\* three names and the construction succeeds, and raises ValueError
\* otherwise: for every other value and for every failure of the
\* construction.
C16_FactorySelectsByConfiguration ==
    (made.called /\ made.arg = None) =>
        /\ made.outcome \in {"instance", "ValueError"}
        /\ made.outcome = "instance" <=>
              /\ Selected \in ProviderValues
              /\ ~KeyMissing(Selected)
              /\ made.ctor = "ok"
        /\ made.outcome = "instance" => made.type = Some(Selected)
        /\ (env["MAIN_PROVIDER"] = None /\ made.ctor = "ok") =>
              made.type = Some(ollama)

\* MAIN_PROVIDER=OpenAI with a key has given an openai provider
C16_Witness ==
    /\ made.called
    /\ made.arg = None
    /\ env["MAIN_PROVIDER"] = Some(<<"O", "p", "e", "n", "A", "I">>)
    /\ made.outcome = "instance"
    /\ made.type = Some(openai)

(***************************************************************************)
(* The agent graph: entry point "agent", a conditional edge from "agent"   *)
(* to "action" or END, and an edge from "action" to END.                   *)
(***************************************************************************)
\* the two graphs: create_agent_graph of graphs/graph.py, create_agent of main.py
Variants == {"graphs/graph.py", "main.py"}

\* message contents: what the text is, and the user text it is about
Text(kind, arg) == [kind |-> kind, arg |-> arg]

HumanMessage(content) == [type |-> "human", content |-> content, tool_calls |-> <<>>]

AIMessage(content, tool_calls) ==
    [type |-> "ai", content |-> content, tool_calls |-> tool_calls]

ToolMessage(content) == [type |-> "tool", content |-> content, tool_calls |-> <<>>]

\* the content of the last HumanMessage of msgs (`for msg in reversed(messages)`)
last_human_msg(msgs) ==
    LET at == {i \in 1..Len(msgs) : msgs[i].type = "human"}
    IN  IF at = {} THEN None
        ELSE Some(msgs[CHOOSE i \in at : \A j \in at : j <= i].content)

\* needs_search = any(keyword in user_lower for keyword in knowledge_keywords)
needs_search(variant, user_text) ==
    IF variant = "main.py"
    THEN AnyKeywordIn(knowledge_keywords_main, lower(user_text))
    ELSE AnyKeywordIn(knowledge_keywords_graph, lower(user_text))

\* call_model: the AIMessage the agent node adds; `llm` is what llm.invoke
\* does on the direct path ("returns" | "raises")
call_model(variant, msgs, llm) ==
    LET last == last_human_msg(msgs) IN
    IF last = None \/ last[1].arg = <<>>
    THEN AIMessage(Text("not found", <<>>), <<>>)
    ELSE IF needs_search(variant, last[1].arg)
    THEN AIMessage(Text("will search", last[1].arg),
                   <<[name |-> "search_knowledge_base", query |-> last[1].arg]>>)
    ELSE IF llm = "returns"
    THEN AIMessage(Text("answer", last[1].arg), <<>>)
    ELSE AIMessage(Text("model error", last[1].arg), <<>>)

\* should_continue
should_continue(msgs) ==
    IF msgs = <<>> THEN "end"
    ELSE IF msgs[Len(msgs)].tool_calls # <<>> THEN "call_tool"
    ELSE "end"

\* (mutant) an edge from "action" back to "agent"
after_action_BackToAgent == "agent"

\* workflow.add_edge("action", END)
after_action == "END"

\* the node "agent" runs: call_model adds one AIMessage
AgentNode ==
    /\ graph.pc = "agent"
    /\ graph.agent_runs < MaxNodeRuns
    /\ \E llm \in {"returns", "raises"} :
        messages' = Append(messages, call_model(graph.variant, messages, llm))
    /\ graph' = [graph EXCEPT !.pc = "route", !.agent_runs = @ + 1]
    /\ UNCHANGED initial
    /\ UNCHANGED offGraph

\* the conditional edge of "agent": {"call_tool": "action", "end": END}
Route ==
    /\ graph.pc = "route"
    /\ graph' = [graph EXCEPT !.pc = IF should_continue(messages) = "call_tool"
                                 THEN "action" ELSE "END"]
    /\ UNCHANGED <<messages, initial>>
    /\ UNCHANGED offGraph

\* the node "action" runs: call_tool executes the tool calls of the last
\* message (the tool node returns a text, an empty text, or raises) and,
\* when there is a text, adds the final answer or the error of llm.invoke
ActionNode ==
    /\ graph.pc = "action"
    /\ graph.action_runs < MaxNodeRuns
    /\ \E tool \in {"text", "empty", "raises"}, llm \in {"returns", "raises"} :
        LET call == messages[Len(messages)].tool_calls[1]
            question == IF messages = <<>> THEN Text("user", <<>>)
                        ELSE messages[1].content
        IN  IF tool = "raises"
            THEN /\ messages' = messages
                 /\ graph' = [graph EXCEPT !.pc = "raised", !.action_runs = @ + 1]
            ELSE IF tool = "empty"
            THEN /\ messages' = Append(messages, ToolMessage(Text("", call.query)))
                 /\ graph' = [graph EXCEPT !.pc = after_action, !.action_runs = @ + 1]
            ELSE /\ messages' =
                        messages \o
                        <<ToolMessage(Text("tool result", call.query)),
                          AIMessage(Text(IF llm = "returns" THEN "final answer"
                                         ELSE "final answer error", question.arg),
                                    <<>>)>>
                 /\ graph' = [graph EXCEPT !.pc = after_action, !.action_runs = @ + 1,
                                       !.question = Some(question)]
    /\ UNCHANGED initial
    /\ UNCHANGED offGraph

\* the histories that precede the user's message, and what may follow it
Before ==
    {<<>>,
     <<HumanMessage(Text("user", <<"I", "A">>))>>,
     <<HumanMessage(Text("user", <<"g", "g">>)),
       AIMessage(Text("answer", <<"g", "g">>), <<>>)>>}

After == {<<>>, <<AIMessage(Text("answer", <<"g">>), <<>>)>>}

\* the message lists a graph is invoked with
Inputs ==
    {b \o <<HumanMessage(Text("user", q))>> \o a :
        b \in Before, q \in StringsUpTo(MaxQueryLen), a \in After}
    \cup {<<>>, <<AIMessage(Text("answer", <<"g">>), <<>>)>>}

InitGraph ==
    /\ initial \in Inputs
    /\ messages = initial
    /\ graph \in {[NoRun EXCEPT !.pc = "agent", !.variant = v] : v \in Variants}
    /\ BridgeIdle
    /\ ConcIdle
    /\ CalcIdle
    /\ AutoIdle
    /\ RepoIdle
    /\ AdapterIdle
    /\ AgentIdle
    /\ StartIdle

NextGraph == AgentNode \/ Route \/ ActionNode

\* the graph runtime executes the node or edge that is due
SpecGraph == InitGraph /\ [][NextGraph]_vars /\ WF_vars(NextGraph)

(***************************************************************************)
(* Claims about the agent graph (checked under SpecGraph)                  *)
(***************************************************************************)
Ended == graph.pc \in {"END", "raised"}

\* the message the agent node produced in this run
AgentMessage == messages[Len(initial) + 1]

NodeOrder ==
    /\ graph.agent_runs <= 1
    /\ graph.action_runs <= 1
    /\ graph.pc = "agent" => graph.agent_runs = 0 /\ graph.action_runs = 0
    /\ graph.pc \in {"route", "action"} => graph.agent_runs = 1 /\ graph.action_runs = 0
    /\ graph.action_runs = 1 => graph.agent_runs = 1 /\ AgentMessage.tool_calls # <<>>
    /\ graph.pc = "action" => AgentMessage.tool_calls # <<>>
    /\ Ended =>
          /\ graph.agent_runs = 1
          /\ graph.action_runs = 1 <=> AgentMessage.tool_calls # <<>>

\* C17: every run executes the agent node exactly once, then the action
\* node at most once, and only when the message the agent node produced
\* carries tool calls, and then ends; control never returns to the agent
\* node, and every run comes to its end.
C17_AgentOnceActionAtMostOnce == []NodeOrder /\ <>Ended

\* a run has ended after the action node ran
C17_Witness ==
    /\ graph.pc = "END"
    /\ graph.agent_runs = 1
    /\ graph.action_runs = 1

\* C18: for every query the three variants of the decision take the
\* knowledge-search path iff the lower-cased query contains a keyword of the
\* one list: the message the agent node of either graph produced carries the
\* search tool call iff it does, and so do _should_use_tools and the
\* decision of the other graph, whatever precedes or follows the query in
\* the history.
C18_DecisionVariantsAgree ==
    (graph.agent_runs = 1 /\ last_human_msg(initial) # None) =>
        LET query == last_human_msg(initial)[1].arg
            contains == \E n \in 1..Len(knowledge_keywords) :
                            IsSubstring(knowledge_keywords[n], lower(query))
        IN  /\ (AgentMessage.tool_calls # <<>>) = contains
            /\ should_use_tools(query) = contains
            /\ \A v \in Variants : needs_search(v, query) = contains

\* the agent node of main.py has taken the search path for a query that
\* matches a keyword only after lower-casing
C18_Witness ==
    /\ graph.variant = "main.py"
    /\ graph.agent_runs = 1
    /\ last_human_msg(initial) = Some(Text("user", <<"g", "i", "A">>))
    /\ AgentMessage.tool_calls # <<>>

\* C27: on the tool path, the "original question" call_tool places in the
\* final-answer prompt is the user message call_model used as the search
\* query, for every message history.
C27_OriginalQuestionIsSearchQuery ==
    graph.question # None =>
        /\ AgentMessage.tool_calls # <<>>
        /\ graph.question[1] = Text("user", AgentMessage.tool_calls[1].query)

(***************************************************************************)
(* The MCP server adapter (MCPServerAdapter)                               *)
(***************************************************************************)
\* the tool names used in registrations
AdapterNames == {"ask_agent", "second_agent", "helper"}

\* self.registered_agents[tool_name] = agent: a new key goes last, an
\* existing key keeps its place
store_agent(keys, tool_name) ==
    IF Contains(keys, tool_name) THEN keys ELSE Append(keys, tool_name)

\* register_agent_as_tool(agent, tool_name, description): the agent is stored,
\* then self.mcp.tool(description) registers agent_tool or raises, and the
\* exception is logged and raised again
register_agent_as_tool ==
    /\ \E tool_name \in AdapterNames, mcp \in {"registers", "raises"} :
        /\ registered_agents' = store_agent(registered_agents, tool_name)
        /\ registered' = IF mcp = "registers" THEN registered \cup {tool_name}
                         ELSE registered
        /\ reg_failed' = (reg_failed \/ mcp = "raises")
    /\ listing' = None
    /\ UNCHANGED offAdapter

\* register_function_as_tool(func, tool_name, description):
\* self.mcp.tool(description)(func) registers the function or raises;
\* nothing is stored in the adapter
register_function_as_tool ==
    /\ \E tool_name \in AdapterNames, mcp \in {"registers", "raises"} :
        /\ registered' = IF mcp = "registers" THEN registered \cup {tool_name}
                         ELSE registered
        /\ reg_failed' = (reg_failed \/ mcp = "raises")
    /\ listing' = None
    /\ UNCHANGED registered_agents
    /\ UNCHANGED offAdapter

\* get_registered_tools: list(self.registered_agents.keys())
get_registered_tools ==
    /\ listing' = Some(registered_agents)
    /\ UNCHANGED <<registered_agents, registered, reg_failed>>
    /\ UNCHANGED offAdapter

InitAdapter ==
    /\ registered_agents = <<>>
    /\ registered = {}
    /\ reg_failed = FALSE
    /\ listing = None
    /\ BridgeIdle
    /\ ConcIdle
    /\ CalcIdle
    /\ AutoIdle
    /\ RepoIdle
    /\ AgentIdle
    /\ StartIdle
    /\ GraphIdle

NextAdapter ==
    \/ register_agent_as_tool
    \/ register_function_as_tool
    \/ get_registered_tools

SpecAdapter == InitAdapter /\ [][NextAdapter]_vars

(***************************************************************************)
(* Claims about the adapter (checked under SpecAdapter)                    *)
(***************************************************************************)
\* C19: after any sequence of successful register_agent_as_tool and
\* register_function_as_tool calls, get_registered_tools returns exactly the
\* names of the tools registered so far, agents and functions alike.
C19_ListingIsWhatWasRegistered ==
    (listing # None /\ ~reg_failed) =>
        {listing[1][i] : i \in 1..Len(listing[1])} = registered
(***************************************************************************)
(* Construction of the tool repository: __init__ sets _tools = {} and runs *)
(* _initialize_tools, four try blocks in a row, one per tool.              *)
(***************************************************************************)
\* the tools of _initialize_tools, in the order of its try blocks
RepoTools ==
    <<"web_search", "wikipedia_search", "search_knowledge_base", "calculator">>

\* How the statements that build a tool can end: the constructor returns or
\* raises; for wikipedia_search the WikipediaAPIWrapper() built first can
\* raise too.
ConstructorEnds(name) ==
    IF name = "wikipedia_search"
    THEN {"returns", "raises", "api_wrapper raises"}
    ELSE {"returns", "raises"}

\* the statement after the try block of the i-th tool
AfterBlock(i) == IF i < Len(RepoTools) THEN RepoTools[i + 1] ELSE "log"

\* (mutant) one try block around the four constructions: the first
\* exception ends _initialize_tools
TryBlock_Cascading(i, end) ==
    IF end = "returns"
    THEN [repo EXCEPT !.pc = AfterBlock(i),
                      !.keys = Append(@, RepoTools[i]),
                      !.ended = @ @@ (RepoTools[i] :> end)]
    ELSE [repo EXCEPT !.pc = "log",
                      !.ended = @ @@ (RepoTools[i] :> end)]

\* try: self._tools[name] = Constructor(...) except Exception: log the error
TryBlock(i, end) ==
    [repo EXCEPT !.pc = AfterBlock(i),
                 !.keys = IF end = "returns" THEN Append(@, RepoTools[i]) ELSE @,
                 !.ended = @ @@ (RepoTools[i] :> end)]

\* The i-th try block of _initialize_tools:
\*   self._tools["web_search"] = DuckDuckGoSearchRun()
\*   self._tools["wikipedia_search"] =
\*       WikipediaQueryRun(api_wrapper=WikipediaAPIWrapper())
\*   self._tools["search_knowledge_base"] = KnowledgeSearchTool(self.vector_store)
\*   self._tools["calculator"] = CalculatorTool()
InitializeTool(i) ==
    /\ repo.pc = RepoTools[i]
    /\ \E end \in ConstructorEnds(RepoTools[i]) : repo' = TryBlock(i, end)
    /\ UNCHANGED available
    /\ UNCHANGED offRepo

\* `if self._tools:` logs the names or that none was initialised; then
\* _initialize_tools and __init__ return
ConstructorReturns ==
    /\ repo.pc = "log"
    /\ repo' = [repo EXCEPT !.pc = "constructed"]
    /\ UNCHANGED available
    /\ UNCHANGED offRepo

\* get_available_tools: one ToolInfo per item of _tools, in its order
get_available_tools ==
    /\ repo.pc = "constructed"
    /\ available' = Some(repo.keys)
    /\ UNCHANGED repo
    /\ UNCHANGED offRepo

InitRepo ==
    /\ repo \in [pc : {RepoTools[1]}, vector_store : BOOLEAN, keys : {<<>>},
                  ended : {[n \in {} |-> "none"]}]
    /\ available = None
    /\ BridgeIdle
    /\ ConcIdle
    /\ CalcIdle
    /\ AutoIdle
    /\ AgentIdle
    /\ StartIdle
    /\ GraphIdle
    /\ AdapterIdle

NextRepo ==
    \/ \E i \in 1..Len(RepoTools) : InitializeTool(i)
    \/ ConstructorReturns
    \/ get_available_tools

SpecRepo == InitRepo /\ [][NextRepo]_vars

(***************************************************************************)
(* Claims about the tool repository (checked under SpecRepo)               *)
(***************************************************************************)
Attempted == DOMAIN repo.ended

\* C26: the four tools are initialised independently: each tool whose try
\* block has run is in _tools iff its own constructor did not raise,
\* whatever the other three did; every block is run, and the constructor of
\* the repository returns with all four attempted and lists exactly the
\* tools that were built.
C26_ToolsInitialisedIndependently ==
    /\ \A i \in 1..Len(RepoTools) :
          /\ RepoTools[i] \in Attempted =>
                (Contains(repo.keys, RepoTools[i])
                    <=> repo.ended[RepoTools[i]] = "returns")
          /\ RepoTools[i] \notin Attempted => ~Contains(repo.keys, RepoTools[i])
    /\ repo.pc \in {"log", "constructed"} =>
          Attempted = {RepoTools[i] : i \in 1..Len(RepoTools)}
    /\ available # None =>
          /\ repo.pc = "constructed"
          /\ available[1] = repo.keys

\* the repository is constructed, web_search and search_knowledge_base
\* raised, and wikipedia_search and calculator are available
C26_Witness ==
    /\ repo.pc = "constructed"
    /\ repo.ended["web_search"] = "raises"
    /\ repo.ended["search_knowledge_base"] = "raises"
    /\ repo.keys = <<"wikipedia_search", "calculator">>
    /\ available = Some(repo.keys)
(***************************************************************************)
(* update_main_tools_file (src/auto_tools.py).  A line is the sequence of  *)
(* its tokens: "from " / "import " open an import line, "#" a comment,     *)
(* "tools = " "[" open the list, "]" closes it, "," separates names, " "   *)
(* and "    " are whitespace; any other token is a name or other code.     *)
(***************************************************************************)
Whitespace == {" ", "    "}

\* line.strip(): the line without its leading and trailing whitespace
RECURSIVE lstrip(_)
lstrip(line) ==
    IF line # <<>> /\ Head(line) \in Whitespace THEN lstrip(Tail(line)) ELSE line

RECURSIVE rstrip(_)
rstrip(line) ==
    IF line # <<>> /\ line[Len(line)] \in Whitespace
    THEN rstrip(SubSeq(line, 1, Len(line) - 1))
    ELSE line

strip(line) == rstrip(lstrip(line))

\* line.startswith('from ') or line.startswith('import ')
is_import(line) == line # <<>> /\ line[1] \in {"from ", "import "}

\* line.strip() == '' or line.startswith('#')
is_blank_or_comment(line) == strip(line) = <<>> \/ (line # <<>> /\ line[1] = "#")

\* line.strip().startswith('tools = [')
is_list_start(line) ==
    Len(strip(line)) >= 2 /\ strip(line)[1] = "tools = " /\ strip(line)[2] = "["

\* token in line
Has(line, token) == \E k \in 1..Len(line) : line[k] = token

\* position of the first occurrence of token in line
Find(line, token) == CHOOSE k \in 1..Len(line) :
                        line[k] = token /\ \A m \in 1..(k - 1) : line[m] # token

\* line.split('[')[1], for a line with one '['
after_open(line) == SubSeq(line, Find(line, "[") + 1, Len(line))

\* text.split(']')[0]
before_close(text) == SubSeq(text, 1, Find(text, "]") - 1)

IsName(token) == token \notin Whitespace \cup {","}

\* [t.strip() for t in tools_text.split(',') if t.strip()], every name
\* being one token
names_of(tools_text) == SelectSeq(tools_text, IsName)

\* list(dict.fromkeys(names)): each name once, at its first occurrence
RECURSIVE fromkeys(_)
fromkeys(names) ==
    IF names = <<>> THEN <<>>
    ELSE LET init == fromkeys(SubSeq(names, 1, Len(names) - 1))
             last == names[Len(names)]
         IN  IF Has(init, last) THEN init ELSE Append(init, last)

\* ', '.join(names)
RECURSIVE join(_)
join(names) ==
    IF Len(names) <= 1 THEN names
    ELSE <<Head(names), ",", " ">> \o join(Tail(names))

\* f"tools = [{', '.join(all_tools)}]"
list_line(all_tools) == <<"tools = ", "[">> \o join(all_tools) \o <<"]">>

\* f"from .{module_name} import {', '.join(new_tool_names)}"
import_line(new_tool_names) ==
    <<"from ", ".api_tools_auto", " ", "import", " ">> \o join(new_tool_names)

\* The first loop: the index after the last import line of the run of
\* import, blank and comment lines the file starts with.
import_insert_index(lines) ==
    LET others == {k \in 1..Len(lines) :
                      ~is_import(lines[k]) /\ ~is_blank_or_comment(lines[k])}
        stop == IF others = {} THEN Len(lines) + 1
                ELSE CHOOSE k \in others : \A m \in others : k <= m
        imports == {k \in 1..(stop - 1) : is_import(lines[k])}
    IN  IF imports = {} THEN 0
        ELSE CHOOSE k \in imports : \A m \in imports : m <= k

\* lines.insert(index, line)
insert(lines, index, line) ==
    SubSeq(lines, 1, index) \o <<line>> \o SubSeq(lines, index + 1, Len(lines))

\* the tools read from lines[j] by the `while j < len(lines)` loop
tools_text(line) ==
    IF Has(line, "]")
    THEN IF Has(line, "[") THEN before_close(after_open(line))
         ELSE before_close(line)
    ELSE IF Has(line, "[") THEN after_open(line)
         ELSE line

RECURSIVE current_tools(_, _, _)
current_tools(lines, from, to) ==
    IF from > to THEN <<>>
    ELSE names_of(tools_text(lines[from])) \o current_tools(lines, from + 1, to)

\* `while j > i + 1: lines.pop(i + 1); j -= 1` pops j - i - 1 lines
old_lines_popped(i, j) == IF j > i + 1 THEN j - i - 1 ELSE 0

\* The second loop, on the first line that starts the list (i), j being the
\* first line from there that holds ']' (or the last line, when none does).
update_list(lines, new_tool_names) ==
    LET starts == {k \in 1..Len(lines) : is_list_start(lines[k])} IN
    IF starts = {} THEN lines
    ELSE
    LET i == CHOOSE k \in starts : \A m \in starts : k <= m
        closes == {k \in i..Len(lines) : Has(lines[k], "]")}
        j == IF closes = {} THEN Len(lines) + 1
             ELSE CHOOSE k \in closes : \A m \in closes : k <= m
        read_to == IF closes = {} THEN Len(lines) ELSE j
        all_tools == fromkeys(current_tools(lines, i, read_to) \o new_tool_names)
    IN  SubSeq(lines, 1, i - 1) \o <<list_line(all_tools)>>
            \o SubSeq(lines, i + 1 + old_lines_popped(i, j), Len(lines))

\* update_main_tools_file(new_tools_file, new_tool_names) reads the file,
\* inserts the import line, rewrites the list and writes the file
update_main_tools_file ==
    /\ ~rewritten
    /\ LET lines == insert(tools_py, import_insert_index(tools_py),
                           import_line(layout.new_tool_names))
       IN  tools_py' = update_list(lines, layout.new_tool_names)
    /\ rewritten' = TRUE
    /\ UNCHANGED layout
    /\ UNCHANGED offAuto

\* the tool names of tools/tools.py and of the generated module
OldNames == {"search", "calc"}

NewNames == {<<"get_user">>, <<"get_user", "calc">>, <<"get_user", "add_user">>}

\* what one line of the list names
LineNames == {<<>>} \cup {<<n>> : n \in OldNames}

\* the lines of a list of n lines, names being what each line names
ListLine(k, n, names) ==
    (IF k = 1 THEN <<"tools = ", "[">> ELSE IF names # <<>> THEN <<"    ">> ELSE <<>>)
        \o join(names)
        \o (IF k = n THEN <<"]">> ELSE IF names # <<>> THEN <<",">> ELSE <<>>)

Lists ==
    UNION {{[k \in 1..n |-> ListLine(k, n, per[k])] : per \in [1..n -> LineNames]}
              : n \in 1..MaxListLines}
    \cup {<<list_line(<<"search", "calc">>)>>}

Heads ==
    {<<>>,
     <<<<"import ", "os">>, <<>>, <<"from ", ".weather", " ", "import", " ", "search">>, <<>>>>,
     <<<<"#", "tools">>, <<"import ", "os">>, <<"x", "=", "1">>>>}

Tails == {<<>>, <<<<>>, <<"__all__", "=", "tools">>>>}

InitAuto ==
    /\ layout \in [head : Heads, list : Lists, tail : Tails,
                   new_tool_names : NewNames]
    /\ tools_py = layout.head \o layout.list \o layout.tail
    /\ rewritten = FALSE
    /\ BridgeIdle
    /\ ConcIdle
    /\ CalcIdle
    /\ AgentIdle
    /\ StartIdle
    /\ GraphIdle
    /\ AdapterIdle
    /\ RepoIdle

NextAuto == update_main_tools_file

SpecAutoTools == InitAuto /\ [][NextAuto]_vars

(***************************************************************************)
(* Claims about update_main_tools_file (checked under SpecAutoTools)       *)
(***************************************************************************)
\* the names the old list holds, in order
ListedBefore ==
    names_of(current_tools(layout.list, 1, Len(layout.list)))

\* the file with the import line inserted, the list on one line, and every
\* other line as it was
RewrittenAsOneLine ==
    tools_py =
        insert(layout.head, import_insert_index(layout.head),
               import_line(layout.new_tool_names))
        \o <<list_line(fromkeys(ListedBefore \o layout.new_tool_names))>>
        \o layout.tail

\* C28: the list, on one line or several, is rewritten as a single line that
\* names every previously listed tool and every new tool once, in
\* first-occurrence order; no line of the old list is left, and every other
\* line is kept, with the one import line inserted after the file's leading
\* imports.
C28_ListRewrittenAsOneLine == rewritten => RewrittenAsOneLine

\* The rewrite is as described when the list was on one line.
OneLineListRewritten ==
    (rewritten /\ Len(layout.list) = 1) => RewrittenAsOneLine
(***************************************************************************)
(* The calculator tools: CalculatorTool._run and simple_calculator.        *)
(***************************************************************************)
Digits == {"0", "1", "2", "3", "4", "5", "6", "7", "8", "9"}

\* (mutant) CalculatorTool with the allowed characters of simple_calculator
allowed_chars_WithComma(tool) ==
    Digits \cup {"+", "-", "*", "/", ".", "(", ")", " ", ","}

\* allowed_chars = set('0123456789+-*/.() ') in CalculatorTool._run,
\* set('0123456789+-*/()., ') in simple_calculator
allowed_chars(tool) ==
    IF tool = "simple_calculator"
    THEN Digits \cup {"+", "-", "*", "/", "(", ")", ".", ",", " "}
    ELSE Digits \cup {"+", "-", "*", "/", ".", "(", ")", " "}

\* all(c in allowed_chars for c in expression)
all_allowed(tool, expression) ==
    \A k \in 1..Len(expression) : expression[k] \in allowed_chars(tool)

\* eval(expression) gives a value or raises (SyntaxError, ZeroDivisionError,
\* TypeError, ...); the empty expression is a SyntaxError
eval_ends(expression) ==
    IF expression = <<>> THEN {"raises"} ELSE {"value", "raises"}

\* the text returned when a character is not allowed
invalid_text(tool) ==
    IF tool = "simple_calculator"
    THEN "Erro: Apenas operações matemáticas básicas são permitidas"
    ELSE "Erro: Caracteres inválidos na expressão"

\* the body of either tool: the character check, eval, and the
\* `except Exception` around both
run_calculator(tool, expression, end) ==
    IF ~all_allowed(tool, expression)
    THEN [ran |-> TRUE, eval_reached |-> FALSE, raised |-> FALSE,
          text |-> <<invalid_text(tool)>>]
    ELSE IF end = "value"
    THEN [ran |-> TRUE, eval_reached |-> TRUE, raised |-> FALSE,
          text |-> <<"Resultado: ", "result">>]
    ELSE [ran |-> TRUE, eval_reached |-> TRUE, raised |-> FALSE,
          text |-> <<IF tool = "simple_calculator" THEN "Erro na operação: "
                     ELSE "Erro de cálculo: ", "str(e)">>]

\* CalculatorTool._run(expression)
CalculatorTool_run ==
    /\ calc_call.tool = "calculator"
    /\ ~calc_result.ran
    /\ \E end \in eval_ends(calc_call.expression) :
          calc_result' = run_calculator("calculator", calc_call.expression, end)
    /\ UNCHANGED calc_call
    /\ UNCHANGED offCalc

\* simple_calculator(expression) of tools.py
simple_calculator_run ==
    /\ calc_call.tool = "simple_calculator"
    /\ ~calc_result.ran
    /\ \E end \in eval_ends(calc_call.expression) :
          calc_result' = run_calculator("simple_calculator", calc_call.expression, end)
    /\ UNCHANGED calc_call
    /\ UNCHANGED offCalc

\* the characters expressions are drawn from: allowed by both tools, by
\* simple_calculator only, and by neither
ExprChars == {"1", "/", ".", ",", "_"}

Expressions == UNION {[1..k -> ExprChars] : k \in 0..MaxExprLen}

InitCalc ==
    /\ calc_call \in [tool : {"calculator", "simple_calculator"},
                      expression : Expressions]
    /\ calc_result = NoCalcResult
    /\ BridgeIdle
    /\ ConcIdle
    /\ AgentIdle
    /\ StartIdle
    /\ GraphIdle
    /\ AdapterIdle
    /\ RepoIdle
    /\ AutoIdle

NextCalc == CalculatorTool_run \/ simple_calculator_run

SpecCalc == InitCalc /\ [][NextCalc]_vars

(***************************************************************************)
(* Claims about the calculator tools (checked under SpecCalc)              *)
(***************************************************************************)
\* the characters an expression may be made of: digits, + - * / . ( ) and
\* space, and the comma in simple_calculator
MayHold(tool) ==
    Digits \cup {"+", "-", "*", "/", ".", "(", ")", " "}
        \cup (IF tool = "simple_calculator" THEN {","} ELSE {})

\* C29: a calculator tool reaches eval only when every character of the
\* expression is in the allowed set (the comma only in simple_calculator);
\* for every other expression it returns its error text without reaching
\* eval; and it never raises, whatever eval does.
C29_EvalOnlyOnAllowedCharacters ==
    calc_result.ran =>
        /\ ~calc_result.raised
        /\ calc_result.text # <<>>
        /\ calc_result.eval_reached <=>
              \A k \in 1..Len(calc_call.expression) :
                  calc_call.expression[k] \in MayHold(calc_call.tool)
        /\ ~calc_result.eval_reached =>
              calc_result.text = <<invalid_text(calc_call.tool)>>

\* CalculatorTool has refused an expression with a comma that
\* simple_calculator would evaluate
C29_Witness ==
    /\ calc_call = [tool |-> "calculator", expression |-> <<"1", ",", "1">>]
    /\ calc_result.ran
    /\ ~calc_result.eval_reached

====
